---- MODULE Spec2Model ----
(***************************************************************************)
(* Verification model of sage/fri-and-friends: the univariate FRI round,   *)
(* the FRI IOPP fold chain with verify_proximity, the FRI polynomial       *)
(* commitment, the WHIR sumcheck-and-fold verifier and the ZK-WHIR         *)
(* wrapper.  Field elements are residues modulo a small Proth prime,       *)
(* polynomials are dense coefficient sequences without trailing zeros      *)
(* (Sage's poly.list()), and every random draw of the code is a choice     *)
(* from a bounded set.                                                     *)
(***************************************************************************)
EXTENDS Integers, Sequences, FiniteSets, TLC

VARIABLES
    params,    \* ntt_omega, rate_factor, folding_factor, ood_count of the run
    oracles,   \* oracle id -> [input: the polynomial given to FRIOPP, rounds: FRIOPP.rounds]
    cur,       \* the FRIOPP being constructed or verified
    stage,     \* position of the enclosing protocol (test driver, FRI-PCS)
    pc,        \* position inside FRIOPP.__init__ / verify_proximity
    vp,        \* locals of the running verify_proximity / consistancy_cross_check
    result,    \* value returned by the last verify_proximity: "none", "True", "False"
    raised,    \* exception that ended the run, "none" if there is none
    pcs,       \* FRIPCS_Prover / FRIPCS_Verifier fields and the locals of verify_proof
    whir,      \* the current WhirRound, the WhirVerifier and the locals of do_sumcheck
    zk         \* ZKWhirPCS fields and the CommitmentData passed between its calls

vars == <<params, oracles, cur, stage, pc, vp, result, raised, pcs, whir, zk>>

(***************************************************************************)
(* Finite field GF(P).  The scripts use p = 15*2^27 + 1; the model uses    *)
(* the Proth prime 97 = 3*2^5 + 1, whose multiplicative group also has a   *)
(* smooth power-of-two subgroup (order 32) and elements of odd order.      *)
(***************************************************************************)
P == 97

Fq == 0 .. (P - 1)

FAdd(a, b) == (a + b) % P

FSub(a, b) == (a - b + P) % P

FMul(a, b) == (a * b) % P

FNeg(a) == (P - a) % P

\* the powers 5^0 .. 5^95 of the generator 5 of the multiplicative group
ExpTable ==
   <<
      1, 5, 25, 28, 43, 21, 8, 40, 6, 30, 53, 71, 64, 29, 48, 46,
      36, 83, 27, 38, 93, 77, 94, 82, 22, 13, 65, 34, 73, 74, 79, 7,
      35, 78, 2, 10, 50, 56, 86, 42, 16, 80, 12, 60, 9, 45, 31, 58,
      96, 92, 72, 69, 54, 76, 89, 57, 91, 67, 44, 26, 33, 68, 49, 51,
      61, 14, 70, 59, 4, 20, 3, 15, 75, 84, 32, 63, 24, 23, 18, 90,
      62, 19, 95, 87, 47, 41, 11, 55, 81, 17, 85, 37, 88, 52, 66, 39
   >>

\* discrete logarithm to base 5 of a nonzero element
LogTable == [a \in 1 .. (P - 1) |-> CHOOSE k \in 0 .. (P - 2) : ExpTable[k + 1] = a]

\* a**n for n >= 0, through the logarithm tables; 0**0 = 1 as in Sage
FPow(a, n) == IF n = 0 THEN 1
              ELSE IF a = 0 THEN 0
              ELSE ExpTable[((LogTable[a] * n) % (P - 1)) + 1]

\* table of inverses; FInv[0] is never read (the code would raise ZeroDivisionError)
FInv == [a \in 1 .. (P - 1) |-> ExpTable[((P - 1 - LogTable[a]) % (P - 1)) + 1]]

FDiv(a, b) == FMul(a, FInv[b])

\* element.multiplicative_order() for a nonzero element
multiplicative_order(a) ==
    CHOOSE n \in 1 .. (P - 1) :
       /\ FPow(a, n) = 1
       /\ \A m \in 1 .. (n - 1) : FPow(a, m) # 1

\* sage.arith.misc.is_power_of_two
is_power_of_two(n) == \E k \in 0 .. 7 : n = 2 ^ k

(***************************************************************************)
(* Dense univariate polynomials over GF(P): <<c0, c1, ...>>, the zero      *)
(* polynomial is <<>> and has degree -1 as in Sage.                        *)
(***************************************************************************)
\* strip the trailing zero coefficients
PNorm(p) ==
    LET nz == {i \in 1 .. Len(p) : p[i] # 0}
    IN  IF nz = {} THEN <<>>
        ELSE SubSeq(p, 1, CHOOSE i \in nz : \A j \in nz : j <= i)

PDeg(p) == Len(p) - 1

Coef(p, i) == IF i + 1 <= Len(p) THEN p[i + 1] ELSE 0

MaxOf(a, b) == IF a >= b THEN a ELSE b

PAdd(p, q) == PNorm([i \in 1 .. MaxOf(Len(p), Len(q)) |-> FAdd(Coef(p, i - 1), Coef(q, i - 1))])

PSub(p, q) == PNorm([i \in 1 .. MaxOf(Len(p), Len(q)) |-> FSub(Coef(p, i - 1), Coef(q, i - 1))])

PScale(c, p) == PNorm([i \in 1 .. Len(p) |-> FMul(c, p[i])])

\* X^k * p
PShift(p, k) == IF p = <<>> THEN <<>> ELSE [i \in 1 .. k |-> 0] \o p

\* ConvAt is coefficient k (0-based) of the product p*q
PMul(p, q) ==
    LET RECURSIVE ConvAt(_, _, _)
        ConvAt(k, i, acc) ==
            IF acc \in Fq /\ i <= k /\ i + 1 <= Len(p)
            THEN ConvAt(k, i + 1, FAdd(acc, FMul(p[i + 1], Coef(q, k - i))))
            ELSE acc
    IN  IF p = <<>> \/ q = <<>> THEN <<>>
        ELSE PNorm([k \in 1 .. (Len(p) + Len(q) - 1) |-> ConvAt(k - 1, 0, 0)])

\* poly(x), Horner form
PEval(p, x) ==
    LET RECURSIVE PEvalFrom(_, _)
        PEvalFrom(i, acc) == IF acc \in Fq /\ i > 0
                             THEN PEvalFrom(i - 1, FAdd(p[i], FMul(x, acc)))
                             ELSE acc
    IN  PEvalFrom(Len(p), 0)

\* long division: <<quotient, remainder>> for a nonzero divisor b
PDivMod(a, b) ==
    LET RECURSIVE PDivModAcc(_, _)
        PDivModAcc(r, quo) ==
            IF Len(r) < Len(b) \/ Len(quo) < 0 THEN << quo, r >>
            ELSE LET c == FDiv(r[Len(r)], b[Len(b)])
                     k == Len(r) - Len(b)
                 IN  PDivModAcc(PSub(r, PShift(PScale(c, b), k)), PAdd(quo, PShift(<<c>>, k)))
    IN  PDivModAcc(a, <<>>)

PQuo(a, b) == PDivMod(a, b)[1]

PRem(a, b) == PDivMod(a, b)[2]

\* monic greatest common divisor
RECURSIVE PGcd(_, _)
PGcd(a, b) == IF b # <<>> THEN PGcd(b, PRem(a, b))
              ELSE IF a = <<>> THEN <<>> ELSE PScale(FInv[a[Len(a)]], a)

\* prod([(x - v) for v in points])
LinearProduct(xs) ==
    LET RECURSIVE LinearProductAcc(_, _)
        LinearProductAcc(i, acc) ==
            IF i > Len(xs) \/ Len(acc) < 0 THEN acc
            ELSE LinearProductAcc(i + 1, PMul(<<FNeg(xs[i]), 1>>, acc))
    IN  LinearProductAcc(1, <<1>>)

Distinct(s) == \A i, j \in 1 .. Len(s) : i # j => s[i] # s[j]

\* PolyRing.lagrange_polynomial(zip(xs, ys)) for pairwise distinct xs, by divided
\* differences (Sage's default algorithm); also M.inverse()*ys for the Vandermonde
\* matrix M of xs, whose solution is the interpolant's coefficient vector
\* DDNext is the next column of the divided-difference table (column j from
\* column j-1), DDCoeffs its diagonal (the Newton coefficients), NewtonHorner the
\* form c_1 + (X - x_1)(c_2 + (X - x_2)( ... )) built from the innermost factor.
lagrange_polynomial(xs, ys) ==
    LET DDNext(col, j) ==
            SubSeq([i \in 1 .. (Len(col) - 1) |->
                       FDiv(FSub(col[i + 1], col[i]), FSub(xs[i + j], xs[i]))],
                   1, Len(col) - 1)
        RECURSIVE DDCoeffs(_, _, _)
        DDCoeffs(col, j, acc) ==
            IF Len(col) = 0 \/ Len(acc) < 0 THEN acc
            ELSE DDCoeffs(DDNext(col, j), j + 1, Append(acc, col[1]))
        RECURSIVE NewtonHorner(_, _, _)
        NewtonHorner(cs, k, acc) ==
            IF k = 0 \/ Len(acc) < 0 THEN acc
            ELSE NewtonHorner(cs, k - 1,
                              PAdd(PNorm(<<cs[k]>>), PMul(<<FNeg(xs[k]), 1>>, acc)))
        Interpolant(cs) == NewtonHorner(cs, Len(cs), <<>>)
    IN  Interpolant(DDCoeffs(ys, 1, <<>>))

(***************************************************************************)
(* fri.py: voting helpers and poly_ksplit                                  *)
(***************************************************************************)
\* sum([1 if v else 0 for v in lst])
CountTrue(lst) == Cardinality({i \in 1 .. Len(lst) : lst[i]})

\* votes > len(lst)//2
is_majority(lst) == CountTrue(lst) > Len(lst) \div 2

\* variant of the vote that returns the outcome of the last query
is_overwhelming_majority_last(lst) == Len(lst) > 0 /\ lst[Len(lst)]

\* variant of the vote that accepts at exactly two thirds
is_overwhelming_majority_atleast(lst) == CountTrue(lst) >= (2 * Len(lst)) \div 3

\* votes > (2*len(lst))//3
is_overwhelming_majority(lst) == CountTrue(lst) > (2 * Len(lst)) \div 3

\* variant of the split that files coefficient i under ndx = i // split_degree
poly_ksplit_blocks(poly, split_degree) ==
    [j \in 1 .. split_degree |->
        PNorm([d \in 1 .. ((Len(poly) + split_degree - 1) \div split_degree) |->
                  Coef(poly, (j - 1) * split_degree + (d - 1))])]

\* splits[ndx] collects coefficient i of poly at degree i // split_degree, ndx = i % split_degree
poly_ksplit(poly, split_degree) ==
    [j \in 1 .. split_degree |->
        PNorm([d \in 1 .. ((Len(poly) + split_degree - 1) \div split_degree) |->
                  Coef(poly, (d - 1) * split_degree + (j - 1))])]

(***************************************************************************)
(* fri.py: FRIRound                                                        *)
(***************************************************************************)
\* the three ValueError guards of FRIRound.__init__
FRIRoundRaises(ntt_omega, rate_factor, folding_factor) ==
    \/ ~ is_power_of_two(multiplicative_order(ntt_omega))
    \/ ~ is_power_of_two(rate_factor)
    \/ rate_factor > multiplicative_order(ntt_omega)
    \/ ~ is_power_of_two(folding_factor)

\* variant of the round whose code dimension ignores the rate
FRIRound_unrated(input_polynomial, ntt_omega, rate_factor, folding_factor) ==
    LET mutl_order == multiplicative_order(ntt_omega)
    IN  [poly |-> input_polynomial,
         omega |-> ntt_omega,
         rate_factor |-> rate_factor,
         mutl_order |-> mutl_order,
         dimension |-> mutl_order,
         folding_factor |-> folding_factor,
         folding_root |-> FPow(ntt_omega, mutl_order \div folding_factor)]

FRIRound(input_polynomial, ntt_omega, rate_factor, folding_factor) ==
    LET mutl_order == multiplicative_order(ntt_omega)
    IN  [poly |-> input_polynomial,
         omega |-> ntt_omega,
         rate_factor |-> rate_factor,
         mutl_order |-> mutl_order,
         dimension |-> mutl_order \div rate_factor,
         folding_factor |-> folding_factor,
         folding_root |-> FPow(ntt_omega, mutl_order \div folding_factor)]

\* RS_CODE.evaluation_points(): omega^0 .. omega^(n-1), kept 1-indexed
evaluation_points(round) == [i \in 1 .. round.mutl_order |-> FPow(round.omega, i - 1)]

\* the EvaluationPolynomial encoder rejects a message of degree >= dimension
EncodeRaises(round) == PDeg(round.poly) >= round.dimension

\* gen_proof() without a corruption hook: the codeword of self.poly
gen_proof(round) == [i \in 1 .. round.mutl_order |-> PEval(round.poly, FPow(round.omega, i - 1))]

ndx_with_folding_roots(round, ndx) ==
    LET step == round.mutl_order \div round.folding_factor
    IN  [j \in 1 .. round.folding_factor |-> (ndx + (j - 1) * step) % round.mutl_order]

\* element of the fraction field: reduced, with monic denominator
NoFrac == [isNone |-> TRUE, num |-> <<>>, den |-> <<1>>]

Frac(num, den) ==
    LET g == PGcd(num, den)
        n1 == PQuo(num, g)
        d1 == PQuo(den, g)
        lead == d1[Len(d1)]
    IN  [isNone |-> FALSE, num |-> PScale(FInv[lead], n1), den |-> PScale(FInv[lead], d1)]

\* truth value of an optional fraction: None and the zero fraction are both falsy
FracTruthy(fr) == (~ fr.isNone) /\ fr.num # <<>>

deep_rational_poly(eval_poly, ood_challenges) ==
    [num |-> lagrange_polynomial(ood_challenges,
                                 [i \in 1 .. Len(ood_challenges) |-> PEval(eval_poly, ood_challenges[i])]),
     den |-> LinearProduct(ood_challenges)]

\* FRIRound.fold up to the construction of the next round:
\* [poly_tbf, ood_response, new_omega]
\* FoldSum: poly_tbf += (fold_challenge**i)*splits[i]
FoldData(round, fold_challenge, ood_challenges) ==
    LET splits == poly_ksplit(round.poly, round.folding_factor)
        RECURSIVE FoldSum(_, _)
        FoldSum(i, poly_tbf) ==
            IF i > Len(splits) \/ Len(poly_tbf) < 0 THEN poly_tbf
            ELSE FoldSum(i + 1, PAdd(poly_tbf, PScale(FPow(fold_challenge, i - 1), splits[i])))
        folded == FoldSum(1, <<>>)
        deep == deep_rational_poly(folded, ood_challenges)
        new_num == PSub(folded, deep.num)
    IN  [poly_tbf |-> IF ood_challenges = <<>> THEN folded ELSE PQuo(new_num, deep.den),
         exact |-> ood_challenges = <<>> \/ PRem(new_num, deep.den) = <<>>,
         ood_response |-> IF ood_challenges = <<>> THEN NoFrac ELSE Frac(deep.num, deep.den),
         new_omega |-> FPow(round.omega, round.folding_factor)]

\* one query of consistancy_cross_check at index ndx of the previous codeword
CrossCheckQuery(this_round, prev_round, previous_round_proof, this_round_proof, folding_challenge, ood_response, ndx) ==
    LET alphas == [i \in 1 .. prev_round.folding_factor |-> FPow(prev_round.folding_root, i - 1)]
        check_indices == ndx_with_folding_roots(prev_round, ndx)
        new_ndx == ndx % this_round.mutl_order
        values == [i \in 1 .. Len(check_indices) |-> previous_round_proof[check_indices[i] + 1]]
        eval_point == evaluation_points(prev_round)[ndx + 1]
        nodes == [i \in 1 .. Len(alphas) |-> FMul(eval_point, alphas[i])]
        \* M.inverse()*val for the Vandermonde matrix M of the nodes: the coefficients
        \* of the interpolant through (nodes[i], values[i])
        coeff == lagrange_polynomial(nodes, values)
        expected == PEval(coeff, folding_challenge)
        value_this_round == this_round_proof[new_ndx + 1]
        this_round_omega == evaluation_points(this_round)[new_ndx + 1]
        corrected == FAdd(FMul(PEval(ood_response.den, this_round_omega), value_this_round),
                          PEval(ood_response.num, this_round_omega))
    IN  [singular |-> ~ Distinct(nodes),
         check_passed |-> IF FracTruthy(ood_response) THEN corrected = expected
                          ELSE value_this_round = expected]

(***************************************************************************)
(* fri.py: FRIOPP.__init__ (the fold chain) and verify_proximity           *)
(***************************************************************************)
\* cap on the length of a fold chain: the code has none, see FRIOPP_Fold
MaxRounds == 4

\* largest query_count drawn (the code's default is 10)
MaxQueries == 2

OracleIds == {"input_oracle", "quot_oracle"}

NoOracle == [input |-> <<>>, rounds |-> <<>>]

VpIdle == [max_degree |-> 0, query_count |-> 0, this_ndx |-> 0, prev_ndx |-> 0,
           round_max_degree |-> 0, success |-> <<>>,
           previous_round_proof |-> <<>>, this_round_proof |-> <<>>]

RoundData(fri_round, fold_random, deep_poly) ==
    [fri_round |-> fri_round, fold_randomness |-> fold_random, deep_poly |-> deep_poly]

LastRound(id) == oracles[id].rounds[Len(oracles[id].rounds)].fri_round

\* The loop test with >= in place of >: a round of degree folding_factor folds on.
LoopPc_atleast(poly) == IF PDeg(poly) >= params.folding_factor THEN "friopp_loop" ELSE "built"

\* while this_round.poly.degree() > folding_factor
LoopPc(poly) == IF PDeg(poly) > params.folding_factor THEN "friopp_loop" ELSE "built"

\* FRIOPP.__init__ up to the first test of the while loop
FRIOPP_Init ==
    /\ pc = "friopp_init"
    /\ LET input_polynomial == oracles[cur].input
       IN  IF FRIRoundRaises(params.ntt_omega, params.rate_factor, params.folding_factor)
           THEN /\ raised' = "ValueError"
                /\ pc' = "raised"
                /\ UNCHANGED oracles
           ELSE /\ oracles' = [oracles EXCEPT ![cur].rounds =
                                 << RoundData(FRIRound(input_polynomial, params.ntt_omega,
                                                       params.rate_factor, params.folding_factor),
                                              -1, NoFrac) >>]
                /\ pc' = LoopPc(input_polynomial)
                /\ UNCHANGED raised
    /\ UNCHANGED <<whir, zk, params, cur, stage, vp, result, pcs>>

\* sequences of length n over S
SeqsOfLen(S, n) == [1 .. n -> S]

\* the values the model draws for Fq.random_element()
FoldChallenges == {0, 5}

OodChallenges == {0, 3}

\* one iteration of the while loop: draw the challenges, fold, append, test again.
\* The model stops a chain at MaxRounds rounds; the code keeps folding.
FRIOPP_Fold ==
    /\ pc = "friopp_loop"
    /\ Len(oracles[cur].rounds) < MaxRounds
    /\ \E fold_challenge \in FoldChallenges :
       \E ood_challenge \in IF params.ood_count <= 1
                              THEN SeqsOfLen(OodChallenges, params.ood_count)
                              ELSE {SubSeq(<<0, 3, 6, 11, 2>>, 1, params.ood_count)} :
          /\ Distinct(ood_challenge)
          /\ LET this_round == LastRound(cur)
                 fd == FoldData(this_round, fold_challenge, ood_challenge)
             IN  IF ~ fd.exact
                 THEN /\ raised' = "AssertionError"
                      /\ pc' = "raised"
                      /\ UNCHANGED oracles
                 ELSE IF FRIRoundRaises(fd.new_omega, this_round.rate_factor, this_round.folding_factor)
                 THEN /\ raised' = "ValueError"
                      /\ pc' = "raised"
                      /\ UNCHANGED oracles
                 ELSE /\ oracles' = [oracles EXCEPT ![cur].rounds =
                                       Append(@, RoundData(FRIRound(fd.poly_tbf, fd.new_omega,
                                                                    this_round.rate_factor,
                                                                    this_round.folding_factor),
                                                           fold_challenge, fd.ood_response))]
                      /\ pc' = LoopPc(fd.poly_tbf)
                      /\ UNCHANGED raised
    /\ UNCHANGED <<whir, zk, params, cur, stage, vp, result, pcs>>

\* verify_proximity(max_degree, query_count) up to the first cross-check
VerifyProximityCall(id, max_degree, query_count) ==
    LET rounds == oracles[id].rounds
        prev_round == rounds[1].fri_round
    IN  /\ cur' = id
        /\ vp' = [VpIdle EXCEPT !.max_degree = max_degree, !.query_count = query_count,
                                !.round_max_degree = max_degree, !.prev_ndx = 1, !.this_ndx = 2]
        /\ IF prev_round.dimension < max_degree
           THEN result' = "False" /\ pc' = "vp_returned"
           ELSE /\ result' = "none"
                /\ pc' = IF Len(rounds) >= 2 THEN "vp_cross" ELSE "vp_final"
        /\ UNCHANGED <<whir, zk, params, oracles, raised>>

\* consistancy_cross_check: the two gen_proof() calls before the query loop
CrossCheck_Begin ==
    /\ pc = "vp_cross"
    /\ LET rounds == oracles[cur].rounds
           prev_round == rounds[vp.prev_ndx].fri_round
           this_round == rounds[vp.this_ndx].fri_round
       IN  IF EncodeRaises(prev_round) \/ EncodeRaises(this_round)
           THEN /\ raised' = "ValueError"
                /\ pc' = "raised"
                /\ UNCHANGED vp
           ELSE /\ vp' = [vp EXCEPT !.previous_round_proof = gen_proof(prev_round),
                                    !.this_round_proof = gen_proof(this_round),
                                    !.success = <<>>]
                /\ pc' = "vp_query"
                /\ UNCHANGED raised
    /\ UNCHANGED <<whir, zk, params, oracles, cur, stage, result, pcs>>

\* one iteration of the query loop: ndx = int(random()*len(previous_round_proof))
CrossCheck_Query ==
    /\ pc = "vp_query"
    /\ Len(vp.success) < vp.query_count
    /\ \E ndx \in 0 .. (Len(vp.previous_round_proof) - 1) :
          LET rounds == oracles[cur].rounds
              q == CrossCheckQuery(rounds[vp.this_ndx].fri_round, rounds[vp.prev_ndx].fri_round,
                                   vp.previous_round_proof, vp.this_round_proof,
                                   rounds[vp.this_ndx].fold_randomness,
                                   rounds[vp.this_ndx].deep_poly, ndx)
          IN  IF q.singular
              THEN /\ raised' = "ZeroDivisionError"
                   /\ pc' = "raised"
                   /\ UNCHANGED vp
              ELSE /\ vp' = [vp EXCEPT !.success = Append(@, q.check_passed)]
                   /\ UNCHANGED <<pc, raised>>
    /\ UNCHANGED <<whir, zk, params, oracles, cur, stage, result, pcs>>

\* the vote of consistancy_cross_check and the rest of the loop body of verify_proximity
CrossCheck_End ==
    /\ pc = "vp_query"
    /\ Len(vp.success) = vp.query_count
    /\ LET rounds == oracles[cur].rounds
           this_fri == rounds[vp.this_ndx].fri_round
           deep_frac == rounds[vp.this_ndx].deep_poly
           is_good == is_overwhelming_majority(vp.success)
           halved == (vp.round_max_degree \div this_fri.folding_factor) + 1
           round_max_degree == IF FracTruthy(deep_frac) THEN halved - PDeg(deep_frac.den)
                               ELSE halved
       IN  IF ~ is_good
           THEN /\ result' = "False"
                /\ pc' = "vp_returned"
                /\ UNCHANGED vp
           ELSE /\ vp' = [vp EXCEPT !.prev_ndx = vp.this_ndx,
                                    !.this_ndx = vp.this_ndx + 1,
                                    !.round_max_degree = round_max_degree]
                /\ pc' = IF round_max_degree <= this_fri.folding_factor
                            \/ vp.this_ndx = Len(rounds)
                         THEN "vp_final" ELSE "vp_cross"
                /\ UNCHANGED result
    /\ UNCHANGED <<whir, zk, params, oracles, cur, stage, raised, pcs>>

\* variant of the final test that compares against the code dimension
LastRoundAccepts_dimension(last_round_poly, prev_round) ==
    ~ (PDeg(last_round_poly) > prev_round.dimension)

\* if last_round_poly.degree() > prev_round.folding_factor: return False, else True
LastRoundAccepts(last_round_poly, prev_round) ==
    ~ (PDeg(last_round_poly) > prev_round.folding_factor)

\* the final interpolation of the last visited round's codeword
VerifyProximity_Final ==
    /\ pc = "vp_final"
    /\ LET prev_round == oracles[cur].rounds[vp.prev_ndx].fri_round
       IN  IF EncodeRaises(prev_round)
           THEN /\ raised' = "ValueError"
                /\ pc' = "raised"
                /\ UNCHANGED result
           ELSE LET last_round_poly == lagrange_polynomial(evaluation_points(prev_round),
                                                           gen_proof(prev_round))
                IN  /\ result' = IF LastRoundAccepts(last_round_poly, prev_round)
                                 THEN "True" ELSE "False"
                    /\ pc' = "vp_returned"
                    /\ UNCHANGED raised
    /\ UNCHANGED <<whir, zk, params, oracles, cur, stage, vp, pcs>>

(***************************************************************************)
(* fri.py: FRIPCS_Prover (commit, open) and FRIPCS_Verifier.verify_proof   *)
(***************************************************************************)
PcsIdle == [poly_degree |-> 0, query_count |-> 0, evaluation_point |-> 0, perturb |-> "none",
            evaluated_value |-> 0, claim_point |-> 0, claim_value |-> 0,
            rs_orignal |-> <<>>, rs_quot |-> <<>>, votes |-> 0, queries_done |-> 0,
            zero_draws |-> 0, verdict |-> "none"]

\* poly.variables(): the generator occurs in a polynomial iff it is not constant
HasVariable(poly) == PDeg(poly) >= 1

\* (input_poly - evaluated_value) // (X - evaluation_point)
Quotient(input_poly, evaluation_point) ==
    PQuo(PSub(input_poly, PNorm(<<PEval(input_poly, evaluation_point)>>)),
         <<FNeg(evaluation_point), 1>>)

\* variant of the reconstruction that leaves the claimed value out
Reconstructed_without_value(expected_value, quot_value, eval_point, evaluation_point) ==
    FMul(quot_value, FSub(eval_point, evaluation_point))

\* expected_value + (rs_quot[ndx] * (eval_points[ndx] - evaluation_point))
Reconstructed(expected_value, quot_value, eval_point, evaluation_point) ==
    FAdd(expected_value, FMul(quot_value, FSub(eval_point, evaluation_point)))

\* variant of the final vote that accepts at exactly two thirds
VoteAccepts_atleast(votes, query_count) == votes >= (2 * query_count) \div 3

\* votes > (2*self.query_count) // 3
VoteAccepts(votes, query_count) == votes > (2 * query_count) \div 3

\* FRIPCS_Prover.open followed by the test driver's choice of the claim it submits:
\* the opened pair, the point moved by one, or the value moved by one
PCS_Open ==
    /\ stage = "commit"
    /\ pc = "built"
    /\ LET input_poly == oracles["input_oracle"].input
           evaluated_value == PEval(input_poly, pcs.evaluation_point)
       IN  IF ~ HasVariable(input_poly)
           THEN /\ raised' = "IndexError"
                /\ pc' = "raised"
                /\ UNCHANGED <<oracles, cur, stage, pcs>>
           ELSE /\ oracles' = [oracles EXCEPT !["quot_oracle"] =
                                 [input |-> Quotient(input_poly, pcs.evaluation_point),
                                  rounds |-> <<>>]]
                /\ cur' = "quot_oracle"
                /\ stage' = "open"
                /\ pc' = "friopp_init"
                /\ pcs' = [pcs EXCEPT
                             !.evaluated_value = evaluated_value,
                             !.claim_point = IF pcs.perturb = "point"
                                             THEN FAdd(pcs.evaluation_point, 1)
                                             ELSE pcs.evaluation_point,
                             !.claim_value = IF pcs.perturb = "value"
                                             THEN FAdd(evaluated_value, 1)
                                             ELSE evaluated_value]
                /\ UNCHANGED raised
    /\ UNCHANGED <<whir, zk, params, vp, result>>

\* verify_proof: original_commit.verify_proximity(self.poly_degree, self.query_count)
PCS_VerifyOriginal ==
    /\ stage = "open"
    /\ pc = "built"
    /\ VerifyProximityCall("input_oracle", pcs.poly_degree, pcs.query_count)
    /\ stage' = "verify_original"
    /\ UNCHANGED pcs

\* verify_proof: the first result, then quot_commit.verify_proximity(self.poly_degree - 1, ...)
PCS_VerifyQuot ==
    /\ stage = "verify_original"
    /\ pc = "vp_returned"
    /\ IF result = "False"
       THEN /\ pcs' = [pcs EXCEPT !.verdict = "False"]
            /\ pc' = "pcs_returned"
            /\ UNCHANGED <<whir, zk, params, oracles, cur, stage, vp, result, raised>>
       ELSE /\ VerifyProximityCall("quot_oracle", pcs.poly_degree - 1, pcs.query_count)
            /\ stage' = "verify_quot"
            /\ UNCHANGED pcs

\* variant of the comparison that accepts every pair of domains
IncompatibleDomains_never(original, quot) == FALSE

\* eval_points != quot.evaluation_points(): comparison of the two lists of points
IncompatibleDomains(original, quot) ==
    evaluation_points(original) # evaluation_points(quot)

\* verify_proof: the second result, the comparison of the evaluation domains and
\* the two gen_proof() calls before the vote
PCS_VoteBegin ==
    /\ stage = "verify_quot"
    /\ pc = "vp_returned"
    /\ LET original == oracles["input_oracle"].rounds[1].fri_round
           quot == oracles["quot_oracle"].rounds[1].fri_round
       IN  IF result = "False" \/ IncompatibleDomains(original, quot)
           THEN /\ pcs' = [pcs EXCEPT !.verdict = "False"]
                /\ pc' = "pcs_returned"
                /\ UNCHANGED <<stage, raised>>
           ELSE IF EncodeRaises(original) \/ EncodeRaises(quot)
           THEN /\ raised' = "ValueError"
                /\ pc' = "raised"
                /\ UNCHANGED <<stage, pcs>>
           ELSE /\ pcs' = [pcs EXCEPT !.rs_orignal = gen_proof(original),
                                      !.rs_quot = gen_proof(quot),
                                      !.votes = 0, !.queries_done = 0, !.zero_draws = 0]
                /\ stage' = "vote"
                /\ pc' = "pcs_vote"
                /\ UNCHANGED raised
    /\ UNCHANGED <<whir, zk, params, oracles, cur, vp, result>>

\* one iteration of the vote: ndx = int(random()*len(rs_orignal)).
\* zero_draws is a history count of the draws at which the quotient codeword is 0.
PCS_Vote ==
    /\ pc = "pcs_vote"
    /\ pcs.queries_done < pcs.query_count
    /\ \E ndx \in 0 .. (Len(pcs.rs_orignal) - 1) :
          LET eval_points == evaluation_points(oracles["input_oracle"].rounds[1].fri_round)
              reconstructed == Reconstructed(pcs.claim_value, pcs.rs_quot[ndx + 1],
                                             eval_points[ndx + 1], pcs.claim_point)
          IN  pcs' = [pcs EXCEPT
                        !.votes = IF reconstructed = pcs.rs_orignal[ndx + 1] THEN @ + 1 ELSE @,
                        !.queries_done = @ + 1,
                        !.zero_draws = IF pcs.rs_quot[ndx + 1] = 0 THEN @ + 1 ELSE @]
    /\ UNCHANGED <<whir, zk, params, oracles, cur, stage, pc, vp, result, raised>>

\* the final vote of verify_proof
PCS_Return ==
    /\ pc = "pcs_vote"
    /\ pcs.queries_done = pcs.query_count
    /\ pcs' = [pcs EXCEPT !.verdict = IF VoteAccepts(pcs.votes, pcs.query_count)
                                      THEN "True" ELSE "False"]
    /\ pc' = "pcs_returned"
    /\ UNCHANGED <<whir, zk, params, oracles, cur, stage, vp, result, raised>>

(***************************************************************************)
(* Multivariate polynomials of the WHIR layer.  An element of the ring     *)
(* Fq[X0, .., X(n-1)] is the sequence of its 3^n coefficients: monomial    *)
(* number k carries the exponent ((k-1) \div 3^(i-1)) % 3 of the i-th      *)
(* generator.  Individual degrees stay <= 2: witness and weight are        *)
(* multilinear and the sumcheck polynomial is their product.  The weight   *)
(* polynomial Z*w of the code is kept as its coefficient w of Z.           *)
(***************************************************************************)
\* sum in Fq of the first n entries of s
SumFirst(s, n) ==
    LET RECURSIVE SumAcc(_, _, _)
        SumAcc(t, i, acc) ==
            IF acc \in Fq /\ i > 0 THEN SumAcc(t, i - 1, FAdd(acc, t[i])) ELSE acc
    IN  SumAcc(SubSeq(s, 1, n), n, 0)

\* sum of the first n entries of a sequence of naturals
IntSumFirst(s, n) ==
    LET RECURSIVE IntSumAcc(_, _, _)
        IntSumAcc(t, i, acc) ==
            IF acc >= 0 /\ i > 0 THEN IntSumAcc(t, i - 1, acc + t[i]) ELSE acc
    IN  IntSumAcc(SubSeq(s, 1, n), n, 0)

\* exponent of the i-th generator in monomial number k
ExpAt(k, i) == ((k - 1) \div (3 ^ (i - 1))) % 3

\* number of generators of the ring of p
NumVars(p) == CHOOSE n \in 0 .. 4 : 3 ^ n = Len(p)

\* the constant c of the ring with n generators
MConst(n, c) == SubSeq([k \in 1 .. 3 ^ n |-> IF k = 1 THEN c ELSE 0], 1, 3 ^ n)

\* c0 + c1 * (i-th generator) in the ring with n generators
MLinear(n, i, c0, c1) ==
    SubSeq([k \in 1 .. 3 ^ n |-> IF k = 1 THEN c0
                                 ELSE IF k = 1 + 3 ^ (i - 1) THEN c1 ELSE 0], 1, 3 ^ n)

MAdd(p, q) == SubSeq([k \in 1 .. Len(p) |-> FAdd(p[k], q[k])], 1, Len(p))

MScale(c, p) == SubSeq([k \in 1 .. Len(p) |-> FMul(c, p[k])], 1, Len(p))

\* product; every individual degree of the result is <= 2 for the factors of the
\* code.  The coefficient of monomial k sums over the monomials k1 that divide it.
MMul(p, q) ==
    LET Coefficient(n, k) ==
            SumFirst([k1 \in 1 .. k |->
                         IF p[k1] # 0 /\ \A i \in 1 .. n : ExpAt(k1, i) <= ExpAt(k, i)
                         THEN FMul(p[k1], q[k - k1 + 1]) ELSE 0], k)
        Product(n) == SubSeq([k \in 1 .. Len(p) |-> Coefficient(n, k)], 1, Len(p))
    IN  Product(NumVars(p))

MIsZero(p) == \A k \in 1 .. Len(p) : p[k] = 0

\* value of a constant polynomial
MConstTerm(p) == p[1]

\* poly.subs({X_i : c}) for a field element c
MSubs(p, i, c) ==
    LET Subs(w) ==
            SubSeq([k \in 1 .. Len(p) |->
                       IF ExpAt(k, i) = 0
                       THEN FAdd(p[k], FAdd(FMul(c, p[k + w]), FMul(FMul(c, c), p[k + 2 * w])))
                       ELSE 0], 1, Len(p))
    IN  Subs(3 ^ (i - 1))

\* poly.variables(): the generators that occur in p, in ring order
MVariables(p) ==
    LET Sorted(S) ==
            SubSeq([j \in 1 .. Cardinality(S) |->
                       CHOOSE i \in S : Cardinality({x \in S : x < i}) = j - 1],
                   1, Cardinality(S))
    IN  Sorted({i \in 1 .. NumVars(p) : \E k \in 1 .. Len(p) : p[k] # 0 /\ ExpAt(k, i) > 0})

\* poly(point) for a list of n field elements
MEval(p, point) ==
    LET RECURSIVE EvalFrom(_, _)
        EvalFrom(q, i) == IF Len(q) > 0 /\ i <= Len(point)
                          THEN EvalFrom(MSubs(q, i, point[i]), i + 1)
                          ELSE MConstTerm(q)
    IN  EvalFrom(p, 1)

\* sum over hypercube = [0,1] of sc_val.subs({xvar : hval})
SumOverVar(sc_val, xvar) == MAdd(MSubs(sc_val, xvar, 0), MSubs(sc_val, xvar, 1))


\* random_multilinear_poly: sum of c*b over monomial_basis, the coefficients c in
\* the order of the basis (bit i of the index is the exponent of X_i)
random_multilinear_poly(n, coefficients) ==
    SubSeq([k \in 1 .. 3 ^ n |->
               IF \A i \in 1 .. n : ExpAt(k, i) <= 1
               THEN coefficients[1 + IntSumFirst([i \in 1 .. n |-> ExpAt(k, i) * 2 ^ (i - 1)], n)]
               ELSE 0], 1, 3 ^ n)
(***************************************************************************)
(* whir.py: eq polynomials, the tensor map and the virtual fold            *)
(***************************************************************************)
\* the exception eq_list raises before it multiplies: len(poly_vars) != len(eq_values),
\* then poly_vars[0] of an empty variable list
eq_list_raises(poly_vars, eq_values) ==
    IF Len(poly_vars) # Len(eq_values) THEN "ValueError"
    ELSE IF Len(poly_vars) = 0 THEN "IndexError"
    ELSE "none"

\* product over (x_var, r_val) of x_var*r_val + (1 - x_var)*(1 - r_val)
eq_list(n, poly_vars, eq_values) ==
    LET RECURSIVE EqListFrom(_, _)
        EqListFrom(j, acc) ==
            IF Len(acc) = 0 \/ j > Len(poly_vars) THEN acc
            ELSE EqListFrom(j + 1,
                            MMul(acc, MLinear(n, poly_vars[j], FSub(1, eq_values[j]),
                                              FSub(FMul(2, eq_values[j]), 1))))
    IN  EqListFrom(1, MConst(n, 1))

\* eq_list over the generators of the ring
eq_polyomial(n, eq_values) == eq_list(n, [i \in 1 .. n |-> i], eq_values)

\* coefficient of Z in eq_weight_polynomial(WeightRing, evaluation_point)
eq_weight_polynomial(n, evaluation_point) == eq_polyomial(n, evaluation_point)

\* the tensor with the challenges taken in reverse order: bit j of i selects the
\* j-th challenge from the end
tensor_map_reversed(sumcheck_challenges) ==
    LET RECURSIVE TensorFrom(_, _, _)
        TensorFrom(i, j, value) ==
            IF value \in Fq /\ j <= Len(sumcheck_challenges)
            THEN TensorFrom(i, j + 1,
                            IF (i \div (2 ^ (j - 1))) % 2 = 1
                            THEN FMul(value, sumcheck_challenges[Len(sumcheck_challenges) - j + 1])
                            ELSE value)
            ELSE value
    IN  [i \in 0 .. (2 ^ Len(sumcheck_challenges) - 1) |-> TensorFrom(i, 1, 1)]

\* degree_map: i -> product of the challenges at the set bits of i
tensor_map(sumcheck_challenges) ==
    LET RECURSIVE TensorFrom(_, _, _)
        TensorFrom(i, j, value) ==
            IF value \in Fq /\ j <= Len(sumcheck_challenges)
            THEN TensorFrom(i, j + 1,
                            IF (i \div (2 ^ (j - 1))) % 2 = 1
                            THEN FMul(value, sumcheck_challenges[j]) ELSE value)
            ELSE value
    IN  [i \in 0 .. (2 ^ Len(sumcheck_challenges) - 1) |-> TensorFrom(i, 1, 1)]

\* the conjugate nodes q_omega * fold_omega^j of one oracle index
FoldNodes(ndx, order, folding_factor, ntt_omega) ==
    LET fold_omega == FPow(ntt_omega, order \div folding_factor)
    IN  SubSeq([j \in 1 .. folding_factor |->
                   FMul(FPow(ntt_omega, ndx), FPow(fold_omega, j - 1))], 1, folding_factor)

\* the exception of fold_virtually: its assertion under __debug__, a singular
\* Vandermonde matrix (M.inverse()) otherwise
fold_virtually_raises(oracle_ndxes, proof_oracle, fold_challenges, ntt_omega, debug) ==
    LET Raises(order, folding_factor) ==
            IF debug /\ ~ (order > folding_factor /\ order % folding_factor = 0)
            THEN "AssertionError"
            ELSE IF \E i \in 1 .. Len(oracle_ndxes) :
                       ~ Distinct(FoldNodes(oracle_ndxes[i], order, folding_factor, ntt_omega))
            THEN "ZeroDivisionError"
            ELSE "none"
    IN  Raises(Len(proof_oracle), 2 ^ Len(fold_challenges))

\* the list of (q_omega^folding_factor, fold_value): fold_value is the sum of
\* schk_tensor[i]*coeff over the coefficients of the interpolant of the oracle
\* values at the conjugate indices (ndx + j*step) % order
fold_virtually(oracle_ndxes, proof_oracle, fold_challenges, ntt_omega) ==
    LET QueryResp(ndx, order, folding_factor) ==
            SubSeq([j \in 1 .. folding_factor |->
                       proof_oracle[((ndx + (j - 1) * (order \div folding_factor)) % order) + 1]],
                   1, folding_factor)
        FoldValue(schk_tensor, coefficients, folding_factor) ==
            SumFirst([i \in 1 .. folding_factor |->
                         FMul(schk_tensor[i - 1], Coef(coefficients, i - 1))], folding_factor)
        FoldEntry(ndx, order, folding_factor) ==
            << FPow(FPow(ntt_omega, ndx), folding_factor),
               FoldValue(tensor_map(fold_challenges),
                         lagrange_polynomial(FoldNodes(ndx, order, folding_factor, ntt_omega),
                                             QueryResp(ndx, order, folding_factor)),
                         folding_factor) >>
    IN  SubSeq([i \in 1 .. Len(oracle_ndxes) |->
                   FoldEntry(oracle_ndxes[i], Len(proof_oracle), 2 ^ Len(fold_challenges))],
               1, Len(oracle_ndxes))

(***************************************************************************)
(* whir.py: WhirRound                                                      *)
(***************************************************************************)
\* WhirRound.to_univariate: the ndx-th OCCURRING variable is replaced by h^(2^ndx).
\* degs[k] is the degree of the image of monomial k.
to_univariate(mvar_poly) ==
    LET UniDegree(k, vs) ==
            IntSumFirst([j \in 1 .. Len(vs) |-> ExpAt(k, vs[j]) * 2 ^ (j - 1)], Len(vs))
        UniCoefs(degs, size, top) ==
            SubSeq([d \in 1 .. (top + 1) |->
                       SumFirst([k \in 1 .. size |->
                                    IF mvar_poly[k] # 0 /\ degs[k] = d - 1
                                    THEN mvar_poly[k] ELSE 0], size)], 1, top + 1)
        Univariate(variables, size) ==
            PNorm(UniCoefs(SubSeq([k \in 1 .. size |-> UniDegree(k, variables)], 1, size),
                           size, 2 * (2 ^ Len(variables) - 1)))
    IN  Univariate(MVariables(mvar_poly), Len(mvar_poly))

\* encoder.encode(univar) of the Reed-Solomon code on the powers of omega
RsEncode(univar, omega, length) ==
    SubSeq([i \in 1 .. length |-> PEval(univar, FPow(omega, i - 1))], 1, length)

RECURSIVE HypercubeFrom(_, _, _, _)
HypercubeFrom(sc_val, variables, j, skip_variables) ==
    IF Len(sc_val) = 0 \/ j > Len(variables) THEN sc_val
    ELSE HypercubeFrom(IF variables[j] \in skip_variables THEN sc_val
                       ELSE SumOverVar(sc_val, variables[j]),
                       variables, j + 1, skip_variables)

\* do_hypercube_sum: the variables summed are those that occur in sumcheck_poly
do_hypercube_sum(sumcheck_poly, skip_variables) ==
    HypercubeFrom(sumcheck_poly, MVariables(sumcheck_poly), 1, skip_variables)

\* truth value of an optional field element: None (-1) and 0 are both falsy
Truthy(x) == x # -1 /\ x # 0

\* the exception WhirRound.__init__ raises, "none" if it returns
WhirRoundRaises(input_polynomial, weight_polynomial, ntt_omega, claimed_sum, debug) ==
    LET multi_order == multiplicative_order(ntt_omega)
        dimension == 2 ^ Len(MVariables(input_polynomial))
        check_match == do_hypercube_sum(MMul(weight_polynomial, input_polynomial), {})
    IN  IF MIsZero(weight_polynomial) THEN "IndexError"
        ELSE IF ~ is_power_of_two(multi_order) THEN "ValueError"
        ELSE IF dimension > multi_order \div 2 THEN "ValueError"
        ELSE IF Truthy(claimed_sum) /\ debug /\ check_match # MConst(NumVars(input_polynomial), claimed_sum)
        THEN "AssertionError"
        ELSE IF PDeg(to_univariate(input_polynomial)) >= dimension THEN "ValueError"
        ELSE "none"

\* the WhirRound built by a constructor call that returns
WhirRound(input_polynomial, weight_polynomial, ntt_omega, claimed_sum) ==
    LET multi_order == multiplicative_order(ntt_omega)
        sumcheck_poly == MMul(weight_polynomial, input_polynomial)
        univar == to_univariate(input_polynomial)
    IN  [poly |-> input_polynomial,
         weight_poly |-> weight_polynomial,
         polyvars |-> MVariables(input_polynomial),
         omega |-> ntt_omega,
         multi_order |-> multi_order,
         dimension |-> 2 ^ Len(MVariables(input_polynomial)),
         sumcheck_challenges |-> <<>>,
         sumcheck_poly |-> sumcheck_poly,
         claimed_sum |-> IF Truthy(claimed_sum) THEN claimed_sum
                         ELSE MConstTerm(do_hypercube_sum(sumcheck_poly, {})),
         code_value |-> RsEncode(univar, ntt_omega, multi_order)]

\* variant of the first guard that accepts a missing challenge in every round
ChallengeMissing_never(round, sumcheck_challenge) == FALSE

\* sumcheck_challenge is None and len(self.sumcheck_challenges) > 0
ChallengeMissing(round, sumcheck_challenge) ==
    sumcheck_challenge = -1 /\ Len(round.sumcheck_challenges) > 0

\* WhirRound.sumcheck_prover_round(sumcheck_challenge), None being -1: the round
\* after the call, the returned polynomial and the exception raised, if any.
\* Specialized is the round after the challenge is substituted for this_var in the
\* sumcheck polynomial, the witness and the weight; SkipAndSum is the code from
\* skip_var = self.polyvars[len(self.sumcheck_challenges)] on; RoundPolyResult is
\* its tail, interminate = result.variables()[0], claimed_sum = result(0) + result(1).
sumcheck_prover_round(round, sumcheck_challenge) ==
    LET RoundPolyResult(updated, res, res_vars) ==
            IF res_vars = <<>>
            THEN [round |-> updated, result |-> res, exc |-> "IndexError"]
            ELSE [round |-> [updated EXCEPT
                                !.claimed_sum = MConstTerm(SumOverVar(res, res_vars[1]))],
                  result |-> res, exc |-> "none"]
        RoundPolyOf(updated, res) == RoundPolyResult(updated, res, MVariables(res))
        SkipAndSum(updated) ==
            IF Len(updated.sumcheck_challenges) >= Len(updated.polyvars)
            THEN [round |-> updated, result |-> <<>>, exc |-> "IndexError"]
            ELSE RoundPolyOf(updated,
                             do_hypercube_sum(updated.sumcheck_poly,
                                 {updated.polyvars[Len(updated.sumcheck_challenges) + 1]}))
        Specialized(this_var) ==
            [round EXCEPT !.sumcheck_challenges = Append(@, sumcheck_challenge),
                          !.sumcheck_poly = MSubs(@, this_var, sumcheck_challenge),
                          !.poly = MSubs(@, this_var, sumcheck_challenge),
                          !.weight_poly = MSubs(@, this_var, sumcheck_challenge)]
    IN  IF ChallengeMissing(round, sumcheck_challenge)
        THEN [round |-> round, result |-> <<>>, exc |-> "ValueError"]
        ELSE IF Len(round.sumcheck_challenges) = Len(round.polyvars)
        THEN [round |-> round, result |-> round.sumcheck_poly, exc |-> "none"]
        ELSE IF sumcheck_challenge # -1
        THEN SkipAndSum(Specialized(round.polyvars[Len(round.sumcheck_challenges) + 1]))
        ELSE SkipAndSum(round)

\* [inp^(2^i) for i, _ in enumerate(weight_eq_vars)]
frobenious_char2(inp, weight_eq_vars) ==
    [i \in 1 .. Len(weight_eq_vars) |-> FPow(inp, 2 ^ (i - 1))]

\* gamma*weight_updt(ood) + sum of weight_updt(query_i)*gamma^(i+2), for a
\* non-empty weight_eq_vars, where
\* weight_updt(point) = eq_list(weight_eq_vars, frobenious_char2(point))
UpdateSum(n, weight_eq_vars, gamma, ood_sample, shift_query) ==
    LET weight_updt(m, eq_vars, point) ==
            eq_list(m, eq_vars, frobenious_char2(point, eq_vars))
        RECURSIVE UpdateSumFrom(_, _)
        UpdateSumFrom(i, update_sum) ==
            IF Len(update_sum) = 0 \/ i > Len(shift_query) THEN update_sum
            ELSE UpdateSumFrom(i + 1,
                               MAdd(update_sum,
                                    MScale(FPow(gamma, i + 1),
                                           weight_updt(n, weight_eq_vars, shift_query[i]))))
    IN  UpdateSumFrom(1, MScale(gamma, weight_updt(n, weight_eq_vars, ood_sample)))

\* the claim correction with the powers of gamma one step behind: sresp * gamma^i
HUpdate_behind(h_terms, gamma) ==
    SumFirst([i \in 1 .. Len(h_terms) |-> FMul(h_terms[i], FPow(gamma, i - 1))], Len(h_terms))

\* sum of sresp * gamma^(i+1) over enumerate(h_terms)
HUpdate(h_terms, gamma) ==
    SumFirst([i \in 1 .. Len(h_terms) |-> FMul(h_terms[i], FPow(gamma, i))], Len(h_terms))

\* WhirRound.update_weight: (ood_reply, new_weight, h_update), or the IndexError of
\* eq_list when the witness has no free variable left
update_weight(round, gamma, ood_sample, shift_query) ==
    LET EvalAll(folded_poly) ==
            SubSeq([i \in 1 .. Len(shift_query) |-> PEval(folded_poly, shift_query[i])],
                   1, Len(shift_query))
        Update(folded_poly, weight_eq_vars, exc) ==
            IF exc # "none"
            THEN [exc |-> exc,
                  ood_reply |-> PEval(folded_poly, ood_sample),
                  new_weight |-> round.weight_poly, h_update |-> 0]
            ELSE [exc |-> "none",
                  ood_reply |-> PEval(folded_poly, ood_sample),
                  new_weight |-> MAdd(round.weight_poly,
                                      UpdateSum(NumVars(round.poly), weight_eq_vars, gamma,
                                                ood_sample, shift_query)),
                  h_update |-> HUpdate(<<PEval(folded_poly, ood_sample)>>
                                       \o EvalAll(folded_poly), gamma)]
        Weights(folded_poly, weight_eq_vars) ==
            Update(folded_poly, weight_eq_vars,
                   eq_list_raises(weight_eq_vars, frobenious_char2(ood_sample, weight_eq_vars)))
    IN  Weights(to_univariate(round.poly), MVariables(round.poly))

\* WhirRound.fold_round: the FoldData (this_round, ood_data), or the exception of
\* update_weight or of the next round's constructor (built on generator**2)
fold_round(round, gamma, ood_sample, shift_queries, debug) ==
    LET NextRound(upd, next_exc, claimed_sum) ==
            IF next_exc # "none"
            THEN [exc |-> next_exc, this_round |-> round, ood_resp |-> upd.ood_reply]
            ELSE [exc |-> "none",
                  this_round |-> WhirRound(round.poly, upd.new_weight, FPow(round.omega, 2),
                                           claimed_sum),
                  ood_resp |-> upd.ood_reply]
        Construct(upd, claimed_sum) ==
            NextRound(upd,
                      IF upd.exc # "none" THEN upd.exc
                      ELSE WhirRoundRaises(round.poly, upd.new_weight, FPow(round.omega, 2),
                                           claimed_sum, debug),
                      claimed_sum)
        Fold(upd) == Construct(upd, FAdd(upd.h_update, round.claimed_sum))
    IN  Fold(update_weight(round, gamma, ood_sample, shift_queries))

(***************************************************************************)
(* whir.py: WhirVerifier                                                   *)
(***************************************************************************)
\* the exception WhirVerifier.__init__ raises, "none" if it returns
WhirVerifierRaises(weight_polynomial, ntt_omega, debug) ==
    IF MIsZero(weight_polynomial) THEN "IndexError"
    ELSE IF debug /\ ~ is_power_of_two(multiplicative_order(ntt_omega)) THEN "AssertionError"
    ELSE "none"

\* the verifier's claimed_sum is kept as an element of the multilinear ring: it is
\* assigned prev_poly.subs(...) in do_sumcheck
WhirVerifier(weight_polynomial, ntt_omega, claimed_sum, fold_factor, shift_query_count) ==
    [weight_polynomial |-> weight_polynomial,
     verifier_omega |-> ntt_omega,
     claimed_sum |-> MConst(NumVars(weight_polynomial), claimed_sum),
     \* int(log(fold_factor, 2))
     schk_rounds |-> CHOOSE k \in 0 .. 7 : 2 ^ k <= fold_factor /\ fold_factor < 2 ^ (k + 1),
     shift_query_count |-> shift_query_count,
     mult_order |-> multiplicative_order(ntt_omega),
     schk_challenges |-> <<>>]

\* WhirVerifier.virtual_shift_response: fold_virtually's result on
\* self.schk_challenges[-self.schk_rounds:] (the whole list when schk_rounds = 0), or
\* the exception of fold_virtually or of the __debug__ comparison with the prover's
\* folded polynomial
virtual_shift_response(verifier, last_round, shift_queries, shift_queries_ndxes, debug) ==
    LET LastChallenges(schk_challenges, schk_rounds) ==
            IF schk_rounds = 0 \/ schk_rounds >= Len(schk_challenges) THEN schk_challenges
            ELSE SubSeq(schk_challenges, Len(schk_challenges) - schk_rounds + 1,
                        Len(schk_challenges))
        Compare(exc, res, folded_poly) ==
            IF exc # "none" THEN [exc |-> exc, result |-> <<>>]
            ELSE IF debug /\ \E i \in 1 .. Len(shift_queries) :
                                << shift_queries[i], PEval(folded_poly, shift_queries[i]) >>
                                    # res[i]
            THEN [exc |-> "AssertionError", result |-> res]
            ELSE [exc |-> "none", result |-> res]
        Respond(schk_challenges) ==
            Compare(fold_virtually_raises(shift_queries_ndxes, last_round.code_value,
                                          schk_challenges, last_round.omega, debug),
                    fold_virtually(shift_queries_ndxes, last_round.code_value,
                                   schk_challenges, last_round.omega),
                    to_univariate(last_round.poly))
    IN  Respond(LastChallenges(verifier.schk_challenges, verifier.schk_rounds))

\* WhirVerifier.update_weight: the verifier after the call, or the IndexError of
\* eq_list when the weight has no free variable
verifier_update_weight(verifier, gamma, ood_challenge, ood_reponse, shift_query) ==
    LET Firsts(pairs) == SubSeq([i \in 1 .. Len(pairs) |-> pairs[i][1]], 1, Len(pairs))
        Seconds(pairs) == SubSeq([i \in 1 .. Len(pairs) |-> pairs[i][2]], 1, Len(pairs))
        Update(weight_eq_vars, exc) ==
            IF exc # "none"
            THEN [exc |-> exc, verifier |-> verifier]
            ELSE [exc |-> "none",
                  verifier |-> [verifier EXCEPT
                      !.weight_polynomial =
                          MAdd(@, UpdateSum(NumVars(@), weight_eq_vars, gamma, ood_challenge,
                                            Firsts(shift_query))),
                      !.claimed_sum =
                          MAdd(@, MConst(NumVars(@),
                                         HUpdate(<<ood_reponse>> \o Seconds(shift_query),
                                                 gamma)))]]
        Weights(weight_eq_vars) ==
            Update(weight_eq_vars,
                   eq_list_raises(weight_eq_vars,
                                  frobenious_char2(ood_challenge, weight_eq_vars)))
    IN  Weights(MVariables(verifier.weight_polynomial))

(***************************************************************************)
(* whir.py: validate_pcs_claim as a state machine.  whir.prover is         *)
(* current_round, whir.sc holds the locals of the running do_sumcheck.     *)
(***************************************************************************)
\* no WhirRound, no WhirVerifier and no do_sumcheck yet
WhirIdle ==
    [input_poly |-> <<>>, evaluation_point |-> <<>>, pcs_claim |-> 0,
     prover |-> [poly |-> <<>>, weight_poly |-> <<>>, polyvars |-> <<>>, omega |-> 1,
                 multi_order |-> 1, dimension |-> 1, sumcheck_challenges |-> <<>>,
                 sumcheck_poly |-> <<>>, claimed_sum |-> 0, code_value |-> <<>>],
     verifier |-> [weight_polynomial |-> <<>>, verifier_omega |-> 1, claimed_sum |-> <<>>,
                   schk_rounds |-> 0, shift_query_count |-> 0, mult_order |-> 1,
                   schk_challenges |-> <<>>],
     sc |-> [i |-> 0, prev_poly |-> <<>>, prev_var |-> 0, claimed_sum |-> <<>>,
             polyvars |-> <<>>]]

\* challenges drawn by do_sumcheck (self.Fq.random_element())
SumcheckChallenges == {2, 5, 78}

\* oracle indices int(multi_order*random()) drawn by fold_check
ShiftIndices(multi_order) == {1, multi_order - 1}

\* wr = WhirRound(input_poly, weight_poly, omega, pcs_claim)
\* wv = WhirVerifier(weight_poly, omega, pcs_claim, fold_factor, shift_query_count)
TestWhir_Setup ==
    /\ stage = "whir"
    /\ pc = "whir_init"
    /\ LET Build(weight_poly, exc) ==
               IF exc # "none"
               THEN /\ raised' = exc
                    /\ pc' = "raised"
                    /\ UNCHANGED whir
               ELSE /\ whir' = [whir EXCEPT
                                   !.prover = WhirRound(whir.input_poly, weight_poly,
                                                        params.ntt_omega, whir.pcs_claim),
                                   !.verifier = WhirVerifier(weight_poly, params.ntt_omega,
                                                             whir.pcs_claim, params.fold_factor,
                                                             params.shift_query_count)]
                    /\ pc' = "whir_loop"
                    /\ UNCHANGED raised
           Raises(weight_poly, round_exc) ==
               IF round_exc # "none" THEN round_exc
               ELSE WhirVerifierRaises(weight_poly, params.ntt_omega, params.debug)
           Setup(weight_poly) ==
               Build(weight_poly,
                     Raises(weight_poly,
                            WhirRoundRaises(whir.input_poly, weight_poly, params.ntt_omega,
                                            whir.pcs_claim, params.debug)))
       IN  Setup(eq_weight_polynomial(Len(whir.evaluation_point), whir.evaluation_point))
    /\ UNCHANGED <<zk, params, oracles, cur, stage, vp, result, pcs>>

\* the loop test with >= in place of >: a round of dimension folding_factor is
\* folded once more
LoopContinues_atleast(current_round, verifier) ==
    current_round.dimension >= 2 ^ verifier.schk_rounds

\* while current_round.RS_CODE.dimension() > folding_factor, folding_factor = 2**self.schk_rounds
LoopContinues(current_round, verifier) ==
    current_round.dimension > 2 ^ verifier.schk_rounds

\* the loop of validate_pcs_claim has an iteration: enter do_sumcheck
DoSumcheck_Begin ==
    /\ pc = "whir_loop"
    /\ LoopContinues(whir.prover, whir.verifier)
    /\ whir' = [whir EXCEPT !.sc = [i |-> 0, prev_poly |-> <<>>, prev_var |-> 0,
                                    claimed_sum |-> whir.verifier.claimed_sum,
                                    polyvars |-> MVariables(whir.verifier.weight_polynomial)]]
    /\ pc' = "whir_sumcheck"
    /\ UNCHANGED <<zk, params, oracles, cur, stage, vp, result, raised, pcs>>

\* the loop of do_sumcheck over zip(range(schk_rounds), polyvars): one iteration short
SumcheckHasNext_short == whir.sc.i < whir.verifier.schk_rounds /\ whir.sc.i < Len(whir.sc.polyvars)

\* the loop of do_sumcheck still has an iteration: zip(range(schk_rounds+1), polyvars)
SumcheckHasNext == whir.sc.i <= whir.verifier.schk_rounds /\ whir.sc.i < Len(whir.sc.polyvars)

\* one iteration of the loop of do_sumcheck
DoSumcheck_Round ==
    /\ pc = "whir_sumcheck"
    /\ SumcheckHasNext
    /\ \E challenge \in IF whir.sc.i > 0 THEN SumcheckChallenges ELSE {-1} :
          LET Round(v, verifier, claimed_sum, h) ==
                  IF h.exc # "none"
                  THEN /\ raised' = h.exc
                       /\ pc' = "raised"
                       /\ whir' = [whir EXCEPT !.prover = h.round, !.verifier = verifier,
                                               !.sc.claimed_sum = claimed_sum]
                       /\ UNCHANGED result
                  ELSE IF SumOverVar(h.result, v) # claimed_sum
                  THEN /\ result' = "False"
                       /\ pc' = "whir_returned"
                       /\ whir' = [whir EXCEPT !.prover = h.round, !.verifier = verifier,
                                               !.sc.claimed_sum = claimed_sum]
                       /\ UNCHANGED raised
                  ELSE /\ whir' = [whir EXCEPT
                                      !.prover = h.round, !.verifier = verifier,
                                      !.sc = [i |-> whir.sc.i + 1, prev_poly |-> h.result,
                                              prev_var |-> v, claimed_sum |-> claimed_sum,
                                              polyvars |-> whir.sc.polyvars]]
                       /\ UNCHANGED <<pc, result, raised>>
          IN  Round(whir.sc.polyvars[whir.sc.i + 1],
                    IF whir.sc.i > 0
                    THEN [whir.verifier EXCEPT
                             !.schk_challenges = Append(@, challenge),
                             !.weight_polynomial = MSubs(@, whir.sc.prev_var, challenge)]
                    ELSE whir.verifier,
                    IF whir.sc.i > 0
                    THEN MSubs(whir.sc.prev_poly, whir.sc.prev_var, challenge)
                    ELSE whir.sc.claimed_sum,
                    sumcheck_prover_round(whir.prover, challenge))
    /\ UNCHANGED <<zk, params, oracles, cur, stage, vp, pcs>>

\* variant of the end of do_sumcheck that leaves self.claimed_sum as it was
DoSumcheck_End_stale ==
    /\ pc = "whir_sumcheck"
    /\ ~ SumcheckHasNext
    /\ pc' = "whir_fold"
    /\ UNCHANGED <<whir, zk, params, oracles, cur, stage, vp, result, raised, pcs>>

\* do_sumcheck leaves its loop: self.claimed_sum = claimed_sum, and returns None
DoSumcheck_End ==
    /\ pc = "whir_sumcheck"
    /\ ~ SumcheckHasNext
    /\ whir' = [whir EXCEPT !.verifier.claimed_sum = whir.sc.claimed_sum]
    /\ pc' = "whir_fold"
    /\ UNCHANGED <<zk, params, oracles, cur, stage, vp, result, raised, pcs>>

\* current_round = self.fold_check(current_round, self.shift_query_count); the
\* combination randomness gamma and the out-of-domain challenge are drawn here
FoldCheck ==
    /\ pc = "whir_fold"
    /\ \E gamma \in {1, 3}, ood_challenge \in {0, 7},
          shift_query_ndxes \in SeqsOfLen(ShiftIndices(whir.prover.multi_order),
                                          whir.verifier.shift_query_count) :
          LET Finish(prover_fold, updated, exc) ==
                  IF exc # "none"
                  THEN /\ raised' = exc
                       /\ pc' = "raised"
                       /\ UNCHANGED whir
                  ELSE /\ whir' = [whir EXCEPT !.prover = prover_fold.this_round,
                                               !.verifier = updated.verifier,
                                               !.sc = WhirIdle.sc]
                       /\ pc' = "whir_loop"
                       /\ UNCHANGED raised
              Update(fold_factor, prover_fold, shift_responses, updated) ==
                  Finish(prover_fold, updated,
                         IF params.debug /\ whir.prover.multi_order % fold_factor # 0
                         THEN "AssertionError"
                         ELSE IF prover_fold.exc # "none" THEN prover_fold.exc
                         ELSE IF shift_responses.exc # "none" THEN shift_responses.exc
                         ELSE updated.exc)
              Respond(fold_factor, prover_fold, shift_responses) ==
                  Update(fold_factor, prover_fold, shift_responses,
                         verifier_update_weight(whir.verifier, gamma, ood_challenge,
                                                prover_fold.ood_resp, shift_responses.result))
              Fold(fold_factor, shift_queries) ==
                  Respond(fold_factor,
                          fold_round(whir.prover, gamma, ood_challenge, shift_queries,
                                     params.debug),
                          virtual_shift_response(whir.verifier, whir.prover, shift_queries,
                                                 shift_query_ndxes, params.debug))
              Queries(fold_factor) ==
                  Fold(fold_factor,
                       SubSeq([i \in 1 .. Len(shift_query_ndxes) |->
                                  FPow(FPow(whir.prover.omega, fold_factor),
                                       shift_query_ndxes[i])], 1, Len(shift_query_ndxes)))
          IN  Queries(2 ^ whir.verifier.schk_rounds)
    /\ UNCHANGED <<zk, params, oracles, cur, stage, vp, result, pcs>>

\* the final round of validate_pcs_claim: the weighted sum of the last round's
\* polynomial against the accumulated claim
ValidatePcsClaim_Final ==
    /\ pc = "whir_loop"
    /\ ~ LoopContinues(whir.prover, whir.verifier)
    /\ LET last_round_poly == whir.prover.poly
           ExpectedSum(sumcheck_poly) ==
               HypercubeFrom(sumcheck_poly, MVariables(sumcheck_poly), 1, {})
       IN  result' = IF ExpectedSum(MMul(whir.verifier.weight_polynomial, last_round_poly))
                        # whir.verifier.claimed_sum
                     THEN "False" ELSE "True"
    /\ pc' = "whir_returned"
    /\ UNCHANGED <<whir, zk, params, oracles, cur, stage, vp, raised, pcs>>

(***************************************************************************)
(* zkwhir.py: mask_polynomial and ZKWhirPCS                                *)
(***************************************************************************)
\* MVarPoly(results_dict) raises TypeError when bit_decom(i, len(poly_vars)) is
\* longer than the number of generators; BitLen(i) is len(Integer(i).bits())
uni_to_multi_raises(univar, n) ==
    LET BitLen(i) == CHOOSE b \in 0 .. 8 : i < 2 ^ b /\ (b = 0 \/ 2 ^ (b - 1) <= i)
    IN  IF \E i \in 0 .. (Len(univar) - 1) : BitLen(i) > n THEN "TypeError" ELSE "none"

\* coefficient i of univar goes to the monomial whose exponents are the bits of i
uni_to_multi(univar, n) ==
    SubSeq([k \in 1 .. 3 ^ n |->
               IF \A i \in 1 .. n : ExpAt(k, i) <= 1
               THEN Coef(univar, IntSumFirst([i \in 1 .. n |-> ExpAt(k, i) * 2 ^ (i - 1)], n))
               ELSE 0], 1, 3 ^ n)

\* every exponent tuple gets a 0 for the added last generator
upgrade_ring(input_poly) == input_poly \o [k \in 1 .. (2 * Len(input_poly)) |-> 0]

\* degree bound nzc of the random univariate mask; CeilLog2(x) is ceil(log(x, 2))
MaskNzc(input_poly, query_threshold, folding_factor) ==
    LET mask_degree == query_threshold * folding_factor
        input_degree == 2 ^ Len(MVariables(input_poly))
        CeilLog2(x) == CHOOSE e \in 0 .. 10 : x <= 2 ^ e /\ (e = 0 \/ 2 ^ (e - 1) < x)
    IN  2 ^ CeilLog2(input_degree + mask_degree) - input_degree - 1

\* the exception mask_polynomial raises: the overflow of uni_to_multi, then, when
\* __debug__ holds, the NameError of the undefined name eq_polynomial
mask_polynomial_raises(input_poly, random_poly, debug) ==
    IF uni_to_multi_raises(random_poly, NumVars(input_poly) + 1) # "none" THEN "TypeError"
    ELSE IF debug THEN "NameError"
    ELSE "none"

\* output_poly = input_poly + random_multivar*last_var
mask_polynomial(input_poly, random_poly) ==
    LET n == NumVars(input_poly) + 1
    IN  MAdd(upgrade_ring(input_poly),
             MMul(uni_to_multi(random_poly, n), MLinear(n, n, 0, 1)))

\* no ZKWhirPCS and no CommitmentData yet
ZkIdle ==
    [input_poly |-> <<>>, evaluation_point |-> <<>>, verifier_challenge |-> 0,
     masked_poly |-> <<>>, scheck_mask |-> <<>>,
     commitment |-> [func |-> <<>>, scheck_mask |-> <<>>, pcs_evaluation |-> -1,
                     scheck_evaluation |-> -1]]

\* draws of MaskPolyRing.random_element(nzc), cut to degree nzc
MaskDraws == { <<4, 9, 0, 6, 1, 0, 0, 0, 2, 0, 0, 3>>, <<0, 1>>, <<0, 0, 0, 0, 1>> }

random_element(draw, nzc) ==
    PNorm(SubSeq(draw, 1, IF Len(draw) <= nzc + 1 THEN Len(draw) ELSE nzc + 1))

\* coefficient draws of random_multilinear_poly(MaskingRing), three variables
ScheckDraws == { <<1, 0, 2, 0, 0, 3, 0, 5>>, <<0, 0, 0, 0, 0, 0, 0, 0>>, <<1, 0, 2, 0, 0, 0, 0, 0>> }

\* zkWHIR = ZKWhirPCS(input_poly, ntt_omega=omega, ...)
ZK_Construct ==
    /\ stage = "zk"
    /\ pc = "zk_init"
    /\ \E draw \in MaskDraws, coefficients \in ScheckDraws :
          LET Construct(random_poly, exc) ==
                  IF exc # "none"
                  THEN /\ raised' = exc
                       /\ pc' = "raised"
                       /\ UNCHANGED zk
                  ELSE /\ zk' = [zk EXCEPT
                                    !.masked_poly = mask_polynomial(zk.input_poly, random_poly),
                                    !.scheck_mask = random_multilinear_poly(
                                                        NumVars(zk.input_poly) + 1, coefficients)]
                       /\ pc' = "zk_commit"
                       /\ UNCHANGED raised
              Mask(random_poly) ==
                  Construct(random_poly,
                            mask_polynomial_raises(zk.input_poly, random_poly, params.debug))
          IN  Mask(random_element(draw, MaskNzc(zk.input_poly, params.query_threshold,
                                                params.folding_factor)))
    /\ UNCHANGED <<whir, params, oracles, cur, stage, vp, result, pcs>>

\* commitment = zkWHIR.commit()
ZK_Commit ==
    /\ pc = "zk_commit"
    /\ LET Commit(multi_order, dimension, fn_masked, fn_scheck) ==
               IF dimension > multi_order \/ PDeg(fn_masked) >= dimension
                  \/ PDeg(fn_scheck) >= dimension
               THEN /\ raised' = "ValueError"
                    /\ pc' = "raised"
                    /\ UNCHANGED zk
               ELSE /\ zk' = [zk EXCEPT
                                 !.commitment.func =
                                     RsEncode(fn_masked, params.ntt_omega, multi_order),
                                 !.commitment.scheck_mask =
                                     RsEncode(fn_scheck, params.ntt_omega, multi_order)]
                    /\ pc' = "zk_open"
                    /\ UNCHANGED raised
       IN  Commit(multiplicative_order(params.ntt_omega), 2 ^ NumVars(zk.masked_poly),
                  to_univariate(zk.masked_poly), to_univariate(zk.scheck_mask))
    /\ UNCHANGED <<whir, params, oracles, cur, stage, vp, result, pcs>>

\* commitment = zkWHIR.open(evaluation_point, verifier_challenge, commitment);
\* whir.prover is commitment.whir_first_round
ZK_Open ==
    /\ pc = "zk_open"
    /\ LET extended_eval_point == zk.evaluation_point \o <<0>>
           virtual_oracle == [i \in 1 .. Len(zk.commitment.func) |->
                                 FAdd(FMul(zk.verifier_challenge, zk.commitment.func[i]),
                                      zk.commitment.scheck_mask[i])]
           Finish(pcs_evaluation, scheck_evaluation, first_round, exc) ==
               IF exc # "none"
               THEN /\ raised' = exc
                    /\ pc' = "raised"
                    /\ UNCHANGED <<whir, zk>>
               ELSE /\ zk' = [zk EXCEPT !.commitment.pcs_evaluation = pcs_evaluation,
                                        !.commitment.scheck_evaluation = scheck_evaluation]
                    /\ whir' = [whir EXCEPT !.prover = first_round]
                    /\ pc' = "zk_verify"
                    /\ UNCHANGED raised
           Check(pcs_evaluation, scheck_evaluation, sumcheck_poly, claimed_sum, round_exc,
                 first_round) ==
               Finish(pcs_evaluation, scheck_evaluation, first_round,
                      IF params.debug
                         /\ MEval(zk.masked_poly, extended_eval_point) # pcs_evaluation
                      THEN "AssertionError"
                      ELSE IF params.debug
                              /\ MEval(sumcheck_poly, extended_eval_point) # claimed_sum
                      THEN "AssertionError"
                      ELSE IF round_exc # "none" THEN round_exc
                      ELSE IF params.debug /\ first_round.code_value # virtual_oracle
                      THEN "AssertionError"
                      ELSE "none")
           Round(pcs_evaluation, scheck_evaluation, weight_poly, sumcheck_poly, claimed_sum) ==
               Check(pcs_evaluation, scheck_evaluation, sumcheck_poly, claimed_sum,
                     WhirRoundRaises(sumcheck_poly, weight_poly, params.ntt_omega,
                                     claimed_sum, params.debug),
                     WhirRound(sumcheck_poly, weight_poly, params.ntt_omega, claimed_sum))
           Open(pcs_evaluation, scheck_evaluation) ==
               Round(pcs_evaluation, scheck_evaluation,
                     eq_weight_polynomial(Len(extended_eval_point), extended_eval_point),
                     MAdd(MScale(zk.verifier_challenge, zk.masked_poly), zk.scheck_mask),
                     FAdd(FMul(zk.verifier_challenge, pcs_evaluation), scheck_evaluation))
       IN  Open(MEval(zk.input_poly, zk.evaluation_point),
                MEval(zk.scheck_mask, extended_eval_point))
    /\ UNCHANGED <<params, oracles, cur, stage, vp, result, pcs>>

\* zkWHIR.verify(evaluation_point, verifier_challenge, commitment) up to its call of
\* validate_pcs_claim; shift_query_count keeps its default 2
ZK_Verify ==
    /\ pc = "zk_verify"
    /\ LET claimed_value == zk.commitment.pcs_evaluation
           random_sum == zk.commitment.scheck_evaluation
           combined_sum == FAdd(FMul(zk.verifier_challenge, claimed_value), random_sum)
           extended_eval_point == zk.evaluation_point \o <<0>>
           Verify(weight_poly, exc) ==
               IF exc # "none"
               THEN /\ raised' = exc
                    /\ pc' = "raised"
                    /\ UNCHANGED whir
               ELSE /\ whir' = [whir EXCEPT
                                   !.verifier = WhirVerifier(weight_poly, params.ntt_omega,
                                                             combined_sum,
                                                             params.folding_factor, 2)]
                    /\ pc' = "whir_loop"
                    /\ UNCHANGED raised
           Weight(weight_poly) ==
               Verify(weight_poly,
                      WhirVerifierRaises(weight_poly, params.ntt_omega, params.debug))
       IN  Weight(eq_weight_polynomial(Len(extended_eval_point), extended_eval_point))
    /\ UNCHANGED <<zk, params, oracles, cur, stage, vp, result, pcs>>

(***************************************************************************)
(* Specification of the FRI IOPP: an input polynomial and a configuration  *)
(* are drawn, the chain is built, then verify_proximity runs once with a   *)
(* drawn degree claim and query count.                                     *)
(***************************************************************************)
\* order-16 generator of the evaluation domain in GF(97)
Omega16 == FPow(5, 6)

FriPolys == { <<7>>, <<1, 0, 3>>, <<0, 0, 0, 0, 1>>, <<2, 1, 0, 0, 4>>,
              <<1, 0, 2, 0, 0, 0, 3>>, <<0, 1, 0, 3, 0, 0, 1, 2>>,
              <<0, 0, 0, 0, 0, 0, 0, 0, 1>> }

FriParams ==
    [ntt_omega : {Omega16}, rate_factor : {2}, folding_factor : {2}, ood_count : {0, 1}]
    \cup [ntt_omega : {Omega16}, rate_factor : {2}, folding_factor : {1, 4}, ood_count : {0}]
    \cup [ntt_omega : {FPow(5, 3)}, rate_factor : {2}, folding_factor : {2}, ood_count : {1}]
    \cup [ntt_omega : {Omega16}, rate_factor : {2}, folding_factor : {4}, ood_count : {4}]

\* the bounds max_degree drawn for verify_proximity; 30 is the order of the
\* largest power-of-two domain of GF(97) less 2, and 5 is 30/4 - 2
DegreeClaims == {0, 1, 4, 5, 8, 9, 30}

InitFRI ==
    /\ params \in FriParams
    /\ \E f \in FriPolys :
          oracles = [id \in OracleIds |-> IF id = "input_oracle"
                                          THEN [input |-> f, rounds |-> <<>>] ELSE NoOracle]
    /\ cur = "input_oracle"
    /\ stage = "friopp"
    /\ pc = "friopp_init"
    /\ vp = VpIdle
    /\ result = "none"
    /\ raised = "none"
    /\ whir = WhirIdle
    /\ zk = ZkIdle
    /\ pcs = PcsIdle

\* iopp.verify_proximity(max_degree, query_count) of the test driver
VerifyProximity_Call ==
    /\ stage = "friopp"
    /\ pc = "built"
    /\ \E max_degree \in DegreeClaims, query_count \in 1 .. MaxQueries :
          VerifyProximityCall("input_oracle", max_degree, query_count)
    /\ UNCHANGED <<stage, pcs>>

NextFRI ==
    \/ FRIOPP_Init
    \/ FRIOPP_Fold
    \/ VerifyProximity_Call
    \/ CrossCheck_Begin
    \/ CrossCheck_Query
    \/ CrossCheck_End
    \/ VerifyProximity_Final

SpecFRI == InitFRI /\ [][NextFRI]_vars

(***************************************************************************)
(* Specification of the FRI-PCS round trip of run_test_pcs: commit, open,  *)
(* then one verify_proof on the opened pair or on a perturbed one.         *)
(***************************************************************************)
PcsPolys == { <<7>>, <<5, 1>>, <<0, 0, 1>>, <<0, 0, 0, 0, 1>>, <<2, 1, 0, 0, 4>> }

PcsParams == [ntt_omega : {Omega16}, rate_factor : {2}, folding_factor : {2}, ood_count : {0, 1}]


InitPCS ==
    /\ params \in PcsParams
    /\ \E f \in PcsPolys :
          /\ oracles = [id \in OracleIds |-> IF id = "input_oracle"
                                             THEN [input |-> f, rounds |-> <<>>] ELSE NoOracle]
          /\ \E z \in {0, 1, 3}, q \in 1 .. MaxQueries, perturb \in {"none", "point", "value"} :
                pcs = [PcsIdle EXCEPT !.poly_degree = PDeg(f) + 1, !.query_count = q,
                                      !.evaluation_point = z, !.perturb = perturb]
    /\ cur = "input_oracle"
    /\ stage = "commit"
    /\ pc = "friopp_init"
    /\ vp = VpIdle
    /\ result = "none"
    /\ raised = "none"
    /\ whir = WhirIdle
    /\ zk = ZkIdle

NextPCS ==
    \/ FRIOPP_Init
    \/ FRIOPP_Fold
    \/ PCS_Open
    \/ PCS_VerifyOriginal
    \/ CrossCheck_Begin
    \/ CrossCheck_Query
    \/ CrossCheck_End
    \/ VerifyProximity_Final
    \/ PCS_VerifyQuot
    \/ PCS_VoteBegin
    \/ PCS_Vote
    \/ PCS_Return

SpecPCS == InitPCS /\ [][NextPCS]_vars

(***************************************************************************)
(* Specification of the two votes on their own: a query loop records n     *)
(* outcomes, then consistancy_cross_check decides on the list and          *)
(* verify_proof on the counter.                                            *)
(***************************************************************************)
\* largest number of queries in the vote specification
MaxTally == 6

InitVote ==
    /\ params \in PcsParams
    /\ oracles = [id \in OracleIds |-> NoOracle]
    /\ cur = "input_oracle"
    /\ stage = "tally"
    /\ pc = "tally_query"
    /\ \E n \in 0 .. MaxTally :
          /\ vp = [VpIdle EXCEPT !.query_count = n]
          /\ pcs = [PcsIdle EXCEPT !.query_count = n]
    /\ result = "none"
    /\ raised = "none"
    /\ whir = WhirIdle
    /\ zk = ZkIdle

\* one query of either loop, reduced to its outcome: success.append(check_passed)
\* in consistancy_cross_check, votes += 1 on a match in verify_proof
Tally_Query ==
    /\ stage = "tally"
    /\ pc = "tally_query"
    /\ Len(vp.success) < vp.query_count
    /\ \E check_passed \in BOOLEAN :
          /\ vp' = [vp EXCEPT !.success = Append(@, check_passed)]
          /\ pcs' = [pcs EXCEPT !.votes = IF check_passed THEN @ + 1 ELSE @,
                                !.queries_done = @ + 1]
    /\ UNCHANGED <<whir, zk, params, oracles, cur, stage, pc, result, raised>>

\* return is_overwhelming_majority(success)  /  if votes > (2*self.query_count) // 3
Tally_Decide ==
    /\ stage = "tally"
    /\ pc = "tally_query"
    /\ Len(vp.success) = vp.query_count
    /\ result' = IF is_overwhelming_majority(vp.success) THEN "True" ELSE "False"
    /\ pcs' = [pcs EXCEPT !.verdict = IF VoteAccepts(pcs.votes, pcs.query_count)
                                      THEN "True" ELSE "False"]
    /\ pc' = "tally_done"
    /\ UNCHANGED <<whir, zk, params, oracles, cur, stage, vp, raised>>

NextVote ==
    \/ Tally_Query
    \/ Tally_Decide

SpecVote == InitVote /\ [][NextVote]_vars

(***************************************************************************)
(* Specification of test_whir: a multilinear witness and an evaluation     *)
(* point are drawn, WhirRound and WhirVerifier are built on the truthful   *)
(* claim, then validate_pcs_claim runs once.                               *)
(***************************************************************************)
\* coefficient draws of random_multilinear_poly in two variables, in the order of
\* monomial_basis: 1, X0, X1, X0*X1
WhirCoefficients == { <<1, 2, 3, 4>>, <<0, 0, 0, 1>>, <<5, 0, 1, 0>>, <<7, 0, 0, 0>>,
                      <<0, 0, 92, 1>>, <<3, 1, 0, 0>> }

\* evaluation points; 49 is 1/2 in GF(97)
WhirPoints == { <<3, 4>>, <<3, 0>>, <<49, 4>>, <<1, 0>> }

\* omega is the order-8 generator of the evaluation domain in GF(97)
WhirParams ==
    LET omega == FPow(Omega16, 2)
    IN  [ntt_omega : {omega}, fold_factor : {2}, shift_query_count : {1, 2}, debug : {TRUE}]
        \cup [ntt_omega : {omega}, fold_factor : {4}, shift_query_count : {2}, debug : {TRUE}]
        \cup [ntt_omega : {omega}, fold_factor : {2}, shift_query_count : {1}, debug : {FALSE}]

InitWHIR ==
    /\ params \in WhirParams
    /\ \E coefficients \in WhirCoefficients, evaluation_point \in WhirPoints :
          LET input_poly == random_multilinear_poly(Len(evaluation_point), coefficients)
          IN  whir = [WhirIdle EXCEPT !.input_poly = input_poly,
                                      !.evaluation_point = evaluation_point,
                                      !.pcs_claim = MEval(input_poly, evaluation_point)]
    /\ zk = ZkIdle
    /\ oracles = [id \in OracleIds |-> NoOracle]
    /\ cur = "input_oracle"
    /\ stage = "whir"
    /\ pc = "whir_init"
    /\ vp = VpIdle
    /\ result = "none"
    /\ raised = "none"
    /\ pcs = PcsIdle

NextWHIR ==
    \/ TestWhir_Setup
    \/ DoSumcheck_Begin
    \/ DoSumcheck_Round
    \/ DoSumcheck_End
    \/ FoldCheck
    \/ ValidatePcsClaim_Final

SpecWHIR == InitWHIR /\ [][NextWHIR]_vars

(***************************************************************************)
(* test_whir on a witness of three variables over the domain of order 16,  *)
(* so that fold_factor 4 (two sumcheck challenges per round) reaches a     *)
(* fold and fold_factor 2 reaches two of them; fold_factor 1 and 3 are the *)
(* values WhirVerifier takes that are no power of two above 1.             *)
(***************************************************************************)
InitWHIR3 ==
    /\ params \in [ntt_omega : {Omega16}, fold_factor : {1, 2, 3, 4}, shift_query_count : {1},
                   debug : BOOLEAN]
    /\ \E coefficients \in {<<1, 2, 3, 4, 5, 6, 7, 8>>, <<0, 0, 0, 0, 0, 0, 0, 1>>},
          evaluation_point \in {<<3, 4, 5>>} :
          LET input_poly == random_multilinear_poly(Len(evaluation_point), coefficients)
          IN  whir = [WhirIdle EXCEPT !.input_poly = input_poly,
                                      !.evaluation_point = evaluation_point,
                                      !.pcs_claim = MEval(input_poly, evaluation_point)]
    /\ zk = ZkIdle
    /\ oracles = [id \in OracleIds |-> NoOracle]
    /\ cur = "input_oracle"
    /\ stage = "whir"
    /\ pc = "whir_init"
    /\ vp = VpIdle
    /\ result = "none"
    /\ raised = "none"
    /\ pcs = PcsIdle

SpecWHIR3 == InitWHIR3 /\ [][NextWHIR]_vars

(***************************************************************************)
(* Specification of test_zk_whir: construct ZKWhirPCS on a drawn witness,  *)
(* commit, open at a drawn point and challenge, verify.  The interpreter   *)
(* mode (assert statements and __debug__ blocks on or off) is a parameter  *)
(* of the run.  The witnesses and thresholds drawn keep the mask           *)
(* multilinear, except for the default thresholds (3, 4).                  *)
(***************************************************************************)
\* coefficient draws of the two-variable witness: 1, X0, X1, X0*X1
ZkCoefficients == { <<1, 2, 3, 4>>, <<0, 5, 1, 0>> }

ZkPoints == { <<3, 4>>, <<49, 4>> }

ZkChallenges == {1, 6}

ZkParams ==
    [ntt_omega : {Omega16}, query_threshold : {1}, folding_factor : {4}, debug : BOOLEAN]
    \cup [ntt_omega : {Omega16}, query_threshold : {3}, folding_factor : {4}, debug : BOOLEAN]

InitZK ==
    /\ params \in ZkParams
    /\ \E coefficients \in ZkCoefficients, evaluation_point \in ZkPoints,
          verifier_challenge \in ZkChallenges :
          zk = [ZkIdle EXCEPT
                   !.input_poly = random_multilinear_poly(Len(evaluation_point), coefficients),
                   !.evaluation_point = evaluation_point,
                   !.verifier_challenge = verifier_challenge]
    /\ whir = WhirIdle
    /\ oracles = [id \in OracleIds |-> NoOracle]
    /\ cur = "input_oracle"
    /\ stage = "zk"
    /\ pc = "zk_init"
    /\ vp = VpIdle
    /\ result = "none"
    /\ raised = "none"
    /\ pcs = PcsIdle

NextZK ==
    \/ ZK_Construct
    \/ ZK_Commit
    \/ ZK_Open
    \/ ZK_Verify
    \/ DoSumcheck_Begin
    \/ DoSumcheck_Round
    \/ DoSumcheck_End
    \/ FoldCheck
    \/ ValidatePcsClaim_Final

SpecZK == InitZK /\ [][NextZK]_vars

(***************************************************************************)
(* Properties of the FRI IOPP                                              *)
(***************************************************************************)
InputPoly == oracles["input_oracle"].input

FirstRound == oracles["input_oracle"].rounds[1].fri_round

\* verify_proximity has returned or raised in the IOPP driver
FriDone == stage = "friopp" /\ pc \in {"vp_returned", "raised"}

\* C1: FRI completeness.  Whenever the input polynomial has degree below the
\* claimed bound D (D within the code dimension, at least one query), the run
\* of verify_proximity(D, q) ends with True, whatever challenges, OOD points
\* and query indices were drawn.
C1_Completeness ==
    (FriDone /\ vp.query_count >= 1
        /\ PDeg(InputPoly) < vp.max_degree
        /\ vp.max_degree <= FirstRound.dimension)
    => result = "True"

\* the tracked bound of verify_proximity(D', q) reaches the final test right
\* after the first fold, whose output still has degree above folding_factor
C4_Case ==
    /\ stage = "friopp" /\ pc = "vp_returned"
    /\ vp.max_degree < (PDeg(InputPoly) \div params.folding_factor) - 1
    /\ vp.max_degree < params.folding_factor * params.folding_factor
    /\ Len(oracles["input_oracle"].rounds) >= 2
    /\ PDeg(oracles["input_oracle"].rounds[2].fri_round.poly) > params.folding_factor

C10_FoldLowersDegree ==
    [][(pc = "friopp_loop" /\ pc' # "raised" /\ oracles' # oracles)
         => PDeg(LastRound(cur)'.poly) < PDeg(LastRound(cur).poly)]_vars

(***************************************************************************)
(* Properties of the FRI-PCS                                               *)
(***************************************************************************)
\* the run of commit, open and verify_proof has ended: verify_proof returned,
\* or an exception left one of the three calls
PcsDone == stage # "friopp" /\ pc \in {"pcs_returned", "raised"}

\* C2: FRI-PCS correctness.  For the opened pair (z, v) of a committed
\* polynomial of degree poly_degree - 1, the run ends with verify_proof
\* returning True, whatever challenges and query indices were drawn.
C2_Correctness ==
    (PcsDone /\ pcs.perturb = "none") => pcs.verdict = "True"

\* C5: perturbing the claimed value rejects.  verify_proof on (z, v + 1)
\* returns False for every draw of challenges and query indices.
C5_PerturbedValueRejects ==
    (pc = "pcs_returned" /\ pcs.perturb = "value") => pcs.verdict = "False"

C5_Witness ==
    /\ pc = "pcs_returned" /\ pcs.perturb = "value"
    /\ stage = "vote" /\ pcs.queries_done = pcs.query_count
    /\ pcs.votes = 0 /\ pcs.verdict = "False"

C9_MajorityRule ==
    (stage = "tally" /\ pc = "tally_done")
    => /\ CountTrue(vp.success) = pcs.votes
       /\ result = "True" <=> 3 * pcs.votes > 2 * pcs.query_count
       /\ pcs.verdict = "True" <=> 3 * pcs.votes > 2 * pcs.query_count

\* exactly two thirds of three queries match: both votes reject
C9_Witness ==
    /\ stage = "tally" /\ pc = "tally_done"
    /\ pcs.query_count = 3 /\ pcs.votes = 2
    /\ result = "False" /\ pcs.verdict = "False"

(***************************************************************************)
(* Properties of WHIR and of ZK-WHIR                                       *)
(***************************************************************************)
\* C3: WHIR completeness.  For every multilinear witness f, every point r,
\* weight Z*eq(X, r) and claimed_sum = f(r), every run of
\* validate_pcs_claim(WhirRound(f, weight, omega, f(r))) ends by returning
\* True, whatever sumcheck challenges, gamma, OOD challenge and shift-query
\* indices are drawn.
C3_Completeness ==
    (stage = "whir" /\ pc \in {"whir_returned", "raised"}) => result = "True"

\* C7: ZK mask cancellation.  Once the constructor of ZKWhirPCS has called
\* mask_polynomial, it has returned a polynomial m in l+1 variables with
\* m(x, 0) = f(x), so that masked_poly(point, 0) == input_poly(point), the
\* assertion of open(), holds.
C7_MaskCancellation ==
    (stage = "zk" /\ pc # "zk_init")
    => /\ zk.masked_poly # <<>>
       /\ NumVars(zk.masked_poly) = NumVars(zk.input_poly) + 1
       /\ MSubs(zk.masked_poly, NumVars(zk.masked_poly), 0) = upgrade_ring(zk.input_poly)
       /\ MEval(zk.masked_poly, zk.evaluation_point \o <<0>>)
            = MEval(zk.input_poly, zk.evaluation_point)

\* C8: ZK-WHIR verify.  After open() the combined claim
\* challenge*pcs_evaluation + scheck_evaluation that verify recomputes is the
\* claimed_sum of the first WhirRound, and every run of verify on the opened
\* commitment ends by returning True.
C8_ZkVerifyAccepts ==
    stage = "zk"
    => /\ pc = "zk_verify"
          => FAdd(FMul(zk.verifier_challenge, zk.commitment.pcs_evaluation),
                  zk.commitment.scheck_evaluation) = whir.prover.claimed_sum
       /\ (pc \in {"whir_returned", "raised"} /\ whir.verifier # WhirIdle.verifier)
          => result = "True"

(***************************************************************************)
(* Properties of the construction of rounds                                *)
(***************************************************************************)
\* C11: every constructed FRIRound, the first of a chain and every fold of it,
\* satisfies folding_factor <= rate_factor <= domain order and has a folding_root
\* of order exactly folding_factor (so folding_root^folding_factor = 1); a
\* configuration outside these bounds makes the construction fail.
C11_RoundInvariant ==
    \A id \in OracleIds : \A i \in 1 .. Len(oracles[id].rounds) :
        LET round == oracles[id].rounds[i].fri_round
        IN  /\ round.folding_factor <= round.rate_factor
            /\ round.rate_factor <= round.mutl_order
            /\ FPow(round.folding_root, round.folding_factor) = 1
            /\ multiplicative_order(round.folding_root) = round.folding_factor

(***************************************************************************)
(* Specification of a WHIR run whose verifier holds a claim of its own:    *)
(* the prover's WhirRound is built on the truthful claim f(r), the         *)
(* WhirVerifier on f(r) + claim_offset, then validate_pcs_claim runs once. *)
(***************************************************************************)
\* wr = WhirRound(input_poly, weight_poly, omega, pcs_claim)
\* wv = WhirVerifier(weight_poly, omega, pcs_claim + claim_offset, fold_factor,
\*                   shift_query_count)
TestWhir_SetupClaim ==
    /\ stage = "whir_claim"
    /\ pc = "whir_init"
    /\ LET Build(weight_poly, exc) ==
               IF exc # "none"
               THEN /\ raised' = exc
                    /\ pc' = "raised"
                    /\ UNCHANGED whir
               ELSE /\ whir' = [whir EXCEPT
                                   !.prover = WhirRound(whir.input_poly, weight_poly,
                                                        params.ntt_omega, whir.pcs_claim),
                                   !.verifier = WhirVerifier(weight_poly, params.ntt_omega,
                                                             FAdd(whir.pcs_claim,
                                                                  params.claim_offset),
                                                             params.fold_factor,
                                                             params.shift_query_count)]
                    /\ pc' = "whir_loop"
                    /\ UNCHANGED raised
           Raises(weight_poly, round_exc) ==
               IF round_exc # "none" THEN round_exc
               ELSE WhirVerifierRaises(weight_poly, params.ntt_omega, params.debug)
           Setup(weight_poly) ==
               Build(weight_poly,
                     Raises(weight_poly,
                            WhirRoundRaises(whir.input_poly, weight_poly, params.ntt_omega,
                                            whir.pcs_claim, params.debug)))
       IN  Setup(eq_weight_polynomial(Len(whir.evaluation_point), whir.evaluation_point))
    /\ UNCHANGED <<zk, params, oracles, cur, stage, vp, result, pcs>>

InitWHIRClaim ==
    /\ params \in [ntt_omega : {FPow(Omega16, 2)}, fold_factor : {2, 4},
                   shift_query_count : {1}, debug : BOOLEAN, claim_offset : {0, 1, 50}]
    /\ \E coefficients \in WhirCoefficients, evaluation_point \in WhirPoints :
          LET input_poly == random_multilinear_poly(Len(evaluation_point), coefficients)
          IN  whir = [WhirIdle EXCEPT !.input_poly = input_poly,
                                      !.evaluation_point = evaluation_point,
                                      !.pcs_claim = MEval(input_poly, evaluation_point)]
    /\ zk = ZkIdle
    /\ oracles = [id \in OracleIds |-> NoOracle]
    /\ cur = "input_oracle"
    /\ stage = "whir_claim"
    /\ pc = "whir_init"
    /\ vp = VpIdle
    /\ result = "none"
    /\ raised = "none"
    /\ pcs = PcsIdle

NextWHIRClaim ==
    \/ TestWhir_SetupClaim
    \/ DoSumcheck_Begin
    \/ DoSumcheck_Round
    \/ DoSumcheck_End
    \/ FoldCheck
    \/ ValidatePcsClaim_Final

SpecWHIRClaim == InitWHIRClaim /\ [][NextWHIRClaim]_vars

(***************************************************************************)
(* Properties of the sumcheck                                              *)
(***************************************************************************)
\* C12: a sumcheck mismatch is a boolean reject.  A verifier whose claimed_sum
\* differs from the true hypercube sum never gets past round 0 of do_sumcheck:
\* no further prover round is requested, fold_check is never called, no
\* exception is raised, and validate_pcs_claim returns False.
C12_MismatchRejects ==
    (stage = "whir_claim" /\ params.claim_offset # 0 /\ whir.verifier # WhirIdle.verifier)
    => /\ raised = "none"
       /\ pc # "whir_fold"
       /\ whir.sc.i = 0
       /\ whir.prover.sumcheck_challenges = <<>>
       /\ pc = "whir_returned" => result = "False"


(***************************************************************************)
(* Specification of verify_proof over two oracles that need not share a    *)
(* domain: the runs of SpecPCS and those whose quotient oracle was         *)
(* committed under a foreign generator.                                    *)
(***************************************************************************)
\* FRIPCS_Prover(quot_omega, ..).open of a second prover: the quotient oracle that
\* verify_proof receives as quot_commit is committed under another generator of
\* the same order
PCS_OpenForeign ==
    /\ stage = "commit"
    /\ pc = "built"
    /\ HasVariable(oracles["input_oracle"].input)
    /\ pcs.perturb = "none"
    /\ \E quot_omega \in {FPow(Omega16, 3), FPow(Omega16, 5)} :
          params' = [params EXCEPT !.ntt_omega = quot_omega]
    /\ LET input_poly == oracles["input_oracle"].input
           evaluated_value == PEval(input_poly, pcs.evaluation_point)
       IN  /\ oracles' = [oracles EXCEPT !["quot_oracle"] =
                            [input |-> Quotient(input_poly, pcs.evaluation_point),
                             rounds |-> <<>>]]
           /\ pcs' = [pcs EXCEPT !.evaluated_value = evaluated_value,
                                 !.claim_point = pcs.evaluation_point,
                                 !.claim_value = evaluated_value]
    /\ cur' = "quot_oracle"
    /\ stage' = "open"
    /\ pc' = "friopp_init"
    /\ UNCHANGED <<whir, zk, vp, result, raised>>

NextPCSDomain ==
    \/ PCS_OpenForeign
    \/ NextPCS

SpecPCSDomain == InitPCS /\ [][NextPCSDomain]_vars

(***************************************************************************)
(* Properties of the evaluation domains of the two oracles                 *)
(***************************************************************************)
\* both oracles of verify_proof are committed and their evaluation domains differ
DomainMismatch ==
    /\ Len(oracles["input_oracle"].rounds) > 0
    /\ Len(oracles["quot_oracle"].rounds) > 0
    /\ evaluation_points(oracles["input_oracle"].rounds[1].fri_round)
          # evaluation_points(oracles["quot_oracle"].rounds[1].fri_round)

\* C13: a domain mismatch is fatal.  Whenever the evaluation domains of the
\* polynomial oracle and of the quotient oracle differ, verify_proof never
\* starts the query vote and never accepts: if it returns, it returns False,
\* whatever query indices are drawn.
C13_DomainMismatchRejects ==
    DomainMismatch => /\ pc # "pcs_vote"
                      /\ pcs.verdict # "True"
                      /\ pc = "pcs_returned" => pcs.verdict = "False"

\* a run in which both proximity checks passed and the comparison of the
\* domains is what rejected
C13_Witness ==
    /\ DomainMismatch
    /\ stage = "verify_quot"
    /\ result = "True"
    /\ pc = "pcs_returned"
    /\ pcs.verdict = "False"


\* C14 as stated: mismatched evaluation domains of the two oracles are a
\* configuration error raised at construction time, so two committed oracles
\* with different domains never coexist without a raised error and the mismatch
\* is never reported as a verdict of verify_proof.
C14_AsStated ==
    DomainMismatch => /\ raised # "none"
                      /\ pcs.verdict = "none"

\* C14: mismatched evaluation domains are not a construction error.  Both
\* oracles are constructed, and once both proximity checks have passed
\* verify_proof reports the mismatch as the ordinary outcome False, raising
\* nothing and drawing no query.
C14_MismatchIsBooleanOutcome ==
    [][(DomainMismatch /\ stage = "verify_quot" /\ pc = "vp_returned" /\ result = "True")
       => (pc' = "pcs_returned" /\ pcs'.verdict = "False" /\ raised' = "none"
           /\ pcs'.queries_done = 0)]_vars

\* the mismatch of two constructed oracles reported as False, nothing raised
C14_Witness ==
    /\ DomainMismatch
    /\ raised = "none"
    /\ pc = "pcs_returned"
    /\ stage = "verify_quot"
    /\ result = "True"
    /\ pcs.queries_done = 0
    /\ pcs.rs_quot = <<>>
    /\ pcs.verdict = "False"


(***************************************************************************)
(* Specification of a WhirRound used through its own interface: the round  *)
(* is constructed on a claim the caller supplies or omits, then            *)
(* sumcheck_prover_round is called any number of times, with or without a  *)
(* challenge; a caller that catches an exception may call again.  result   *)
(* holds the argument and the return value of the last call, raised its    *)
(* exception.                                                              *)
(***************************************************************************)
\* WhirRound(input_poly, weight_poly, omega, claimed_sum), None being -1
Round_Construct ==
    /\ stage = "round"
    /\ pc = "round_init"
    /\ LET Build(weight_poly, exc) ==
               IF exc # "none"
               THEN /\ raised' = exc
                    /\ pc' = "raised"
                    /\ UNCHANGED whir
               ELSE /\ whir' = [whir EXCEPT
                                   !.prover = WhirRound(whir.input_poly, weight_poly,
                                                        params.ntt_omega, whir.pcs_claim)]
                    /\ pc' = "round_ready"
                    /\ UNCHANGED raised
           Construct(weight_poly) ==
               Build(weight_poly,
                     WhirRoundRaises(whir.input_poly, weight_poly, params.ntt_omega,
                                     whir.pcs_claim, params.debug))
       IN  Construct(eq_weight_polynomial(Len(whir.evaluation_point), whir.evaluation_point))
    /\ UNCHANGED <<zk, params, oracles, cur, stage, vp, result, pcs>>

\* round.sumcheck_prover_round(challenge), None being -1
Round_Sumcheck ==
    /\ stage = "round"
    /\ pc = "round_ready"
    /\ \E challenge \in {-1} \cup SumcheckChallenges :
          LET Call(h) ==
                  /\ whir' = [whir EXCEPT !.prover = h.round]
                  /\ result' = [challenge |-> challenge,
                                returned |-> IF h.exc = "none" THEN h.result ELSE <<>>]
                  /\ raised' = h.exc
          IN  Call(sumcheck_prover_round(whir.prover, challenge))
    /\ UNCHANGED <<zk, params, oracles, cur, stage, pc, vp, pcs>>

\* the claims a caller may hand to the constructor: none, 0, the value f(r) of
\* the witness at the point of the eq weight, or a value off by one
InitRound ==
    /\ params \in [ntt_omega : {FPow(Omega16, 2)}, debug : BOOLEAN,
                   claim : {"omitted", "zero", "true", "wrong"}]
    /\ \E coefficients \in WhirCoefficients, evaluation_point \in WhirPoints :
          LET input_poly == random_multilinear_poly(Len(evaluation_point), coefficients)
              Start(value) ==
                  whir = [WhirIdle EXCEPT
                             !.input_poly = input_poly,
                             !.evaluation_point = evaluation_point,
                             !.pcs_claim = CASE params.claim = "omitted" -> -1
                                             [] params.claim = "zero" -> 0
                                             [] params.claim = "true" -> value
                                             [] OTHER -> FAdd(value, 1)]
          IN  Start(MEval(input_poly, evaluation_point))
    /\ zk = ZkIdle
    /\ oracles = [id \in OracleIds |-> NoOracle]
    /\ cur = "input_oracle"
    /\ stage = "round"
    /\ pc = "round_init"
    /\ vp = VpIdle
    /\ result = [challenge |-> -1, returned |-> <<>>]
    /\ raised = "none"
    /\ pcs = PcsIdle

NextRound ==
    \/ Round_Construct
    \/ Round_Sumcheck

SpecRound == InitRound /\ [][NextRound]_vars

(***************************************************************************)
(* Properties of a WhirRound                                               *)
(***************************************************************************)
\* the sum over x in {0,1}^l of weight(witness(x)), l the number of generators
\* of the ring, computed variable by variable
TrueHypercubeSum(input_poly, weight_poly) ==
    LET RECURSIVE SumFrom(_, _)
        SumFrom(p, i) == IF i > NumVars(input_poly) \/ Len(p) = 0 THEN p
                         ELSE SumFrom(SumOverVar(p, i), i + 1)
    IN  MConstTerm(SumFrom(MMul(weight_poly, input_poly), 1))

\* C15: every successfully constructed WhirRound has claimed_sum equal to the
\* sum of weight(witness(x)) over the hypercube, whether the claim was omitted
\* or supplied (0 included), and a supplied nonzero claim that differs from the
\* true sum makes the construction fail.
C15_ClaimedSumInvariant ==
    (stage = "round" /\ pc = "round_ready" /\ whir.prover.sumcheck_challenges = <<>>
       /\ result.challenge = -1 /\ result.returned = <<>> /\ raised = "none")
    => whir.prover.claimed_sum = TrueHypercubeSum(whir.prover.poly, whir.prover.weight_poly)


\* C16: round 0 of the sumcheck takes no challenge.  A call of
\* sumcheck_prover_round with a challenge on a fresh WhirRound (no challenge
\* consumed yet) raises an error and leaves the round's witness, weight,
\* claimed_sum and challenge list as they were.
C16_FreshRoundRefusesChallenge ==
    [][(stage = "round" /\ pc = "round_ready" /\ whir.prover.sumcheck_challenges = <<>>
          /\ result'.challenge # -1)
       => /\ raised' # "none"
          /\ whir'.prover.poly = whir.prover.poly
          /\ whir'.prover.weight_poly = whir.prover.weight_poly
          /\ whir'.prover.claimed_sum = whir.prover.claimed_sum
          /\ whir'.prover.sumcheck_challenges = <<>>]_vars


\* C17 as stated: once every variable of a WhirRound has been consumed, a
\* further call of sumcheck_prover_round, with or without a challenge, returns
\* the fully specialized sumcheck polynomial, raises nothing and changes nothing
\* of the round.
C17_AsStated ==
    [][(stage = "round" /\ pc = "round_ready"
          /\ Len(whir.prover.sumcheck_challenges) = Len(whir.prover.polyvars))
       => /\ raised' = "none"
          /\ result'.returned = whir.prover.sumcheck_poly
          /\ whir'.prover = whir.prover]_vars


\* C17: once every variable of a WhirRound has been consumed, a further call of
\* sumcheck_prover_round changes nothing of the round; with a challenge it
\* returns the fully specialized sumcheck polynomial, without a challenge it
\* raises ValueError as soon as one challenge has been consumed.
C17_ConsumedRoundIdempotent ==
    [][(stage = "round" /\ pc = "round_ready"
          /\ Len(whir.prover.sumcheck_challenges) = Len(whir.prover.polyvars))
       => /\ whir'.prover = whir.prover
          /\ IF result'.challenge = -1 /\ whir.prover.sumcheck_challenges # <<>>
             THEN raised' = "ValueError"
             ELSE raised' = "none" /\ result'.returned = whir.prover.sumcheck_poly]_vars

\* a round of two variables, both consumed, whose last call carried a challenge
\* and returned the fully specialized sumcheck polynomial
C17_Witness ==
    /\ stage = "round"
    /\ pc = "round_ready"
    /\ Len(whir.prover.polyvars) = 2
    /\ Len(whir.prover.sumcheck_challenges) = 2
    /\ raised = "none"
    /\ result.challenge # -1
    /\ result.returned = whir.prover.sumcheck_poly
(***************************************************************************)
(* Specification of the Reed-Solomon backend calls of the rounds of one    *)
(* FRIOPP.  The oracle carries, for each round, the cache                  *)
(* _evaluation_points (<<>> while it is None) and two history counts: the  *)
(* calls of RS_CODE.evaluation_points() and of encoder.encode(self.poly)   *)
(* made on behalf of the round.  After construction the operations of a    *)
(* round are called in any order.                                          *)
(***************************************************************************)
\* largest number of encoder calls counted for one round
MaxEncodes == 2

\* round.evaluation_points(): `if not self._evaluation_points` fills the cache
CachedPoints(oracle, i) ==
    IF oracle.cached_points[i] = <<>>
    THEN [oracle EXCEPT !.cached_points[i] = evaluation_points(oracle.rounds[i].fri_round),
                        !.points_calls[i] = @ + 1]
    ELSE oracle

\* round.gen_proof(): encoded = self.encoder.encode(self.poly)
Encoded(oracle, i) == [oracle EXCEPT !.encode_calls[i] = @ + 1]

\* fri_round.evaluation_points() on a round of the chain
Round_evaluation_points ==
    /\ stage = "cache"
    /\ pc = "built"
    /\ \E i \in 1 .. Len(oracles[cur].rounds) :
          oracles' = [oracles EXCEPT ![cur] = CachedPoints(@, i)]
    /\ UNCHANGED <<whir, zk, params, cur, stage, pc, vp, result, raised, pcs>>

\* fri_round.gen_proof() on a round of the chain
Round_gen_proof ==
    /\ stage = "cache"
    /\ pc = "built"
    /\ \E i \in 1 .. Len(oracles[cur].rounds) :
          /\ oracles[cur].encode_calls[i] < MaxEncodes
          /\ IF EncodeRaises(oracles[cur].rounds[i].fri_round)
             THEN /\ raised' = "ValueError"
                  /\ pc' = "raised"
                  /\ UNCHANGED oracles
             ELSE /\ oracles' = [oracles EXCEPT ![cur] = Encoded(@, i)]
                  /\ UNCHANGED <<pc, raised>>
    /\ UNCHANGED <<whir, zk, params, cur, stage, vp, result, pcs>>

\* FRIRound.consistancy_cross_check(rounds[i + 1], rounds[i], ..) with at least
\* one query under the default interpreter: gen_proof() of both rounds, then
\* evaluation_points() of both
Round_consistancy_cross_check ==
    /\ stage = "cache"
    /\ pc = "built"
    /\ \E i \in 1 .. (Len(oracles[cur].rounds) - 1) :
          /\ oracles[cur].encode_calls[i] < MaxEncodes
          /\ oracles[cur].encode_calls[i + 1] < MaxEncodes
          /\ IF EncodeRaises(oracles[cur].rounds[i].fri_round)
                \/ EncodeRaises(oracles[cur].rounds[i + 1].fri_round)
             THEN /\ raised' = "ValueError"
                  /\ pc' = "raised"
                  /\ UNCHANGED oracles
             ELSE /\ oracles' = [oracles EXCEPT ![cur] =
                                   CachedPoints(CachedPoints(Encoded(Encoded(@, i), i + 1),
                                                             i + 1), i)]
                  /\ UNCHANGED <<pc, raised>>
    /\ UNCHANGED <<whir, zk, params, cur, stage, vp, result, pcs>>

InitCache ==
    /\ params \in PcsParams
    /\ \E f \in FriPolys :
          oracles = [id \in OracleIds |->
                        IF id = "input_oracle"
                        THEN [input |-> f, rounds |-> <<>>,
                              cached_points |-> [i \in 1 .. MaxRounds |-> <<>>],
                              points_calls |-> [i \in 1 .. MaxRounds |-> 0],
                              encode_calls |-> [i \in 1 .. MaxRounds |-> 0]]
                        ELSE NoOracle]
    /\ cur = "input_oracle"
    /\ stage = "cache"
    /\ pc = "friopp_init"
    /\ vp = VpIdle
    /\ result = "none"
    /\ raised = "none"
    /\ whir = WhirIdle
    /\ zk = ZkIdle
    /\ pcs = PcsIdle

NextCache ==
    \/ FRIOPP_Init
    \/ FRIOPP_Fold
    \/ Round_evaluation_points
    \/ Round_gen_proof
    \/ Round_consistancy_cross_check

SpecCache == InitCache /\ [][NextCache]_vars

(***************************************************************************)
(* Properties of the caches of a round                                     *)
(***************************************************************************)
\* C18: compute-once caches.  Across any sequence of evaluation_points,
\* gen_proof and consistancy_cross_check calls, the Reed-Solomon backend
\* computes the evaluation points of a round at most once and its codeword at
\* most once.
C18_ComputeOnce ==
    stage = "cache" =>
        \A i \in 1 .. Len(oracles["input_oracle"].rounds) :
            /\ oracles["input_oracle"].points_calls[i] <= 1
            /\ oracles["input_oracle"].encode_calls[i] <= 1


(***************************************************************************)
(* Frame properties of the rounds                                          *)
(***************************************************************************)
\* C19: round entities are immutable after construction.  While do_sumcheck
\* runs against a prover round (every step taken from the sumcheck loop, where
\* sumcheck_prover_round is the only operation applied to the round), the
\* round's polynomial, weight polynomial, claimed_sum and domain generator stay
\* what they were.
C19_RoundImmutable ==
    [][(stage = "whir" /\ pc = "whir_sumcheck")
       => /\ whir'.prover.poly = whir.prover.poly
          /\ whir'.prover.weight_poly = whir.prover.weight_poly
          /\ whir'.prover.claimed_sum = whir.prover.claimed_sum
          /\ whir'.prover.omega = whir.prover.omega]_vars


(***************************************************************************)
(* Specification of the concrete scenario of run_test_friopp.  The         *)
(* scenario (a domain of order 2048, rate_factor 4, folding_factor 4, an   *)
(* input of degree 2048/4 - 1) is instantiated on the largest power-of-two *)
(* domain of GF(97), of order 32, with the same proportions: rate_factor   *)
(* 4, folding_factor 4, inputs of degree 32/4 - 1 = 7.  The bound          *)
(* 2046 = order - 2 becomes 30; the code dimension 512 becomes 8.          *)
(***************************************************************************)
InitScenario ==
    /\ params \in [ntt_omega : {FPow(5, 3)}, rate_factor : {4}, folding_factor : {4},
                   ood_count : {0, 1}]
    /\ \E f \in {<<0, 1, 0, 3, 0, 0, 1, 2>>, <<1, 1, 1, 1, 1, 1, 1, 1>>,
                 <<5, 0, 0, 0, 0, 0, 0, 96>>} :
          oracles = [id \in OracleIds |-> IF id = "input_oracle"
                                          THEN [input |-> f, rounds |-> <<>>] ELSE NoOracle]
    /\ cur = "input_oracle"
    /\ stage = "friopp"
    /\ pc = "friopp_init"
    /\ vp = VpIdle
    /\ result = "none"
    /\ raised = "none"
    /\ whir = WhirIdle
    /\ zk = ZkIdle
    /\ pcs = PcsIdle

SpecScenario == InitScenario /\ [][NextFRI]_vars

(***************************************************************************)
(* Properties of the concrete scenario                                     *)
(***************************************************************************)
\* verify_proximity(order - 2, q) has been called on the committed oracle of the
\* scenario
ScenarioCall ==
    /\ stage = "friopp"
    /\ params.rate_factor = 4 /\ params.folding_factor = 4
    /\ Len(oracles["input_oracle"].rounds) > 0
    /\ PDeg(InputPoly) = FirstRound.mutl_order \div 4 - 1
    /\ vp.query_count >= 1
    /\ vp.max_degree = FirstRound.mutl_order - 2

\* C20 as stated: in the scenario, after commit and folding to the base case,
\* verify_proximity(order - 2) returns True.
C20_AsStated ==
    (ScenarioCall /\ pc = "vp_returned") => result = "True"

\* C20: in the scenario verify_proximity(order - 2) returns False: the bound
\* exceeds the code dimension order/rate_factor, so the call is refused before
\* any round is cross-checked and before any query is drawn.
C20_ScenarioRejects ==
    ScenarioCall => /\ pc = "vp_returned"
                    /\ result = "False"
                    /\ raised = "none"
                    /\ vp.success = <<>>

\* the refused call on an oracle that was folded to the base case
C20_Witness ==
    /\ ScenarioCall
    /\ Len(oracles["input_oracle"].rounds) = 2
    /\ PDeg(LastRound("input_oracle").poly) <= params.folding_factor
    /\ pc = "vp_returned"
    /\ result = "False"

\* C21: reject side of the scenario.  With the input of degree order/4 - 1,
\* verify_proximity((order - 2)/4 - 2), a bound below the degree of the input,
\* returns False (the scenario's 2046/4 - 2 = 509 for degree 511 is 30/4 - 2 = 5
\* for degree 7).
C21_ScenarioRejectsBelow ==
    (/\ stage = "friopp" /\ pc = "vp_returned"
     /\ params.rate_factor = 4 /\ params.folding_factor = 4
     /\ PDeg(InputPoly) = FirstRound.mutl_order \div 4 - 1
     /\ vp.query_count >= 1
     /\ vp.max_degree = (FirstRound.mutl_order - 2) \div 4 - 2
     /\ vp.max_degree < PDeg(InputPoly))
    => result = "False"

\* The chain of an oracle is complete once FRIOPP.__init__ has left its loop.
\* C22 as stated: in every chain the polynomial of round i+1 has degree exactly
\* floor(degree_i / folding_factor), and the last round of a complete chain is
\* the first round of degree <= folding_factor.
C22_AsStated ==
    (stage = "friopp" /\ pc \notin {"friopp_init", "raised"})
    => \A id \in DOMAIN oracles :
         LET rs == oracles[id].rounds
             ff == params.folding_factor
         IN /\ \A i \in 1..(Len(rs) - 1) :
                 /\ PDeg(rs[i + 1].fri_round.poly) = PDeg(rs[i].fri_round.poly) \div ff
                 /\ PDeg(rs[i].fri_round.poly) > ff
            /\ (pc # "friopp_loop" /\ Len(rs) >= 1) => PDeg(rs[Len(rs)].fri_round.poly) <= ff

\* C22: fold-chain degree invariant.  In every chain the polynomial of round
\* i+1 has degree at most floor(degree_i / folding_factor), every round but the
\* last has degree above folding_factor, and the last round of a complete chain
\* has degree at most folding_factor.
C22_FoldChainDegrees ==
    (stage = "friopp" /\ pc \notin {"friopp_init", "raised"})
    => \A id \in DOMAIN oracles :
         LET rs == oracles[id].rounds
             ff == params.folding_factor
         IN /\ \A i \in 1..(Len(rs) - 1) :
                 /\ PDeg(rs[i + 1].fri_round.poly) <= PDeg(rs[i].fri_round.poly) \div ff
                 /\ PDeg(rs[i].fri_round.poly) > ff
            /\ (pc # "friopp_loop" /\ Len(rs) >= 1) => PDeg(rs[Len(rs)].fri_round.poly) <= ff

\* A complete chain of at least two rounds in which some fold lost more degree
\* than the division by folding_factor.
C22_Witness ==
    /\ stage = "friopp" /\ pc = "built"
    /\ \E id \in DOMAIN oracles :
         LET rs == oracles[id].rounds
         IN /\ Len(rs) >= 2
            /\ \E i \in 1..(Len(rs) - 1) :
                 PDeg(rs[i + 1].fri_round.poly) < PDeg(rs[i].fri_round.poly) \div params.folding_factor

\* C23: one-folding-factor-away rejection.  For a chain built with OOD sampling
\* from a polynomial of degree poly_degree - 1,
\* verify_proximity(poly_degree // folding_factor - 1) returns False.
C23_OneFoldAwayRejects ==
    (/\ stage = "friopp" /\ pc = "vp_returned"
     /\ params.ood_count >= 1
     /\ vp.query_count >= 1
     /\ vp.max_degree = (PDeg(InputPoly) + 1) \div params.folding_factor - 1)
    => result = "False"

\* C24: honest fold passes the cross-check with DEEP.  Every fold of FRIOPP
\* with OOD points completes without the exact-division AssertionError, and
\* every query of consistancy_cross_check on the pair (next, this) with the
\* challenge and the OOD response that fold returned passes, whatever index is
\* drawn.
C24_HonestFoldPasses ==
    [][(stage = "friopp" /\ params.ood_count >= 1)
         => /\ (pc = "friopp_loop" => raised' # "AssertionError")
            /\ (pc = "vp_query" /\ pc' # "raised" /\ Len(vp'.success) > Len(vp.success))
                  => vp'.success[Len(vp'.success)] = TRUE
            /\ (pc = "vp_query" => pc' # "raised")]_vars

\* C25: verify_proximity is fail-fast in order.  When the dimension of the
\* first round is below the claimed bound the call returns False before any
\* codeword is generated for a cross-check; and when the vote of a cross-check
\* fails (no overwhelming majority of passed queries) the call returns False at
\* once, with no further cross-check and no final interpolation.
C25_FailFast ==
    [][stage = "friopp"
         => /\ (pc = "built" /\ pc' # "built" /\ FirstRound.dimension < vp'.max_degree)
                  => (pc' = "vp_returned" /\ result' = "False"
                        /\ vp'.previous_round_proof = <<>> /\ vp'.success = <<>>)
            /\ (pc = "vp_query" /\ Len(vp.success) = vp.query_count
                  /\ ~ (CountTrue(vp.success) > (2 * Len(vp.success)) \div 3))
                  => (pc' = "vp_returned" /\ result' = "False" /\ vp' = vp)]_vars

\* The first cross-check of a chain of three rounds failed on every query and
\* the call returned False with the second pair never visited.
C25_Witness ==
    /\ stage = "friopp" /\ pc = "vp_returned" /\ result = "False"
    /\ Len(oracles["input_oracle"].rounds) >= 3
    /\ vp.this_ndx = 2 /\ vp.prev_ndx = 1
    /\ vp.success # <<>> /\ CountTrue(vp.success) = 0

\* C26: a WhirRound reaches FullySpecialized normally.  On a fresh round over l
\* variables the call sumcheck_prover_round(None) returns normally, and so does
\* each of the l calls with a challenge that follow a call that returned
\* normally; after the last of them l challenges are recorded and the witness
\* has no free variable.
C26_ReachesFullySpecialized ==
    [][(stage = "round" /\ pc = "round_ready" /\ raised = "none")
         => LET l == Len(whir.prover.polyvars)
                consumed == Len(whir.prover.sumcheck_challenges)
            IN  /\ (consumed = 0 /\ result.returned = <<>> /\ result'.challenge = -1)
                      => raised' = "none"
                /\ (result.returned # <<>> /\ result'.challenge # -1 /\ consumed < l)
                      => /\ raised' = "none"
                         /\ Len(whir'.prover.sumcheck_challenges) = consumed + 1
                         /\ (consumed + 1 = l => MVariables(whir'.prover.poly) = <<>>)]_vars

\* C27 as stated: fold_round is invoked on a WhirRound only after the sumcheck
\* has consumed all l of that round's variables, never on a round whose witness
\* has a free variable.
C27_AsStated ==
    [][(stage = "whir" /\ pc = "whir_fold")
         => /\ Len(whir.prover.sumcheck_challenges) = Len(whir.prover.polyvars)
            /\ MVariables(whir.prover.poly) = <<>>]_vars

\* C27: fold_round is invoked on a WhirRound after do_sumcheck has run on it and
\* consumed schk_rounds = log2(fold_factor) challenges (fewer when the weight
\* polynomial has fewer variables than schk_rounds + 1), which is always fewer
\* than the l variables of the round.
C27_FoldAfterSumcheck ==
    [][(stage = "whir" /\ pc = "whir_fold")
         => LET consumed == Len(whir.prover.sumcheck_challenges)
                weight_vars == Len(whir.sc.polyvars)
                rounds == IF weight_vars <= whir.verifier.schk_rounds
                          THEN weight_vars ELSE whir.verifier.schk_rounds + 1
            IN  /\ consumed = (IF rounds = 0 THEN 0 ELSE rounds - 1)
                /\ consumed <= Len(whir.verifier.schk_challenges)
                /\ whir.prover.sumcheck_challenges
                      = SubSeq(whir.verifier.schk_challenges,
                               Len(whir.verifier.schk_challenges) - consumed + 1,
                               Len(whir.verifier.schk_challenges))
                /\ consumed < Len(whir.prover.polyvars)]_vars

\* fold_check has produced a round over one variable from a witness of three
\* variables, two challenges having been consumed by the sumcheck on the way
C27_Witness ==
    /\ stage = "whir" /\ pc = "whir_loop"
    /\ Len(whir.evaluation_point) = 3
    /\ Len(whir.verifier.schk_challenges) = 2
    /\ whir.prover.sumcheck_challenges = <<>>
    /\ Len(whir.prover.polyvars) = 1
    /\ MVariables(whir.prover.poly) # <<>>

\* C28: next-round domain.  fold_round called after k sumcheck challenges were
\* consumed returns a next WhirRound whose generator is omega^(2^k) and whose
\* domain order is the current order divided by 2^k.
C28_NextRoundDomain ==
    [][(stage = "whir" /\ pc = "whir_fold" /\ pc' = "whir_loop")
         => LET k == Len(whir.prover.sumcheck_challenges)
            IN  /\ whir'.prover.omega = FPow(whir.prover.omega, 2 ^ k)
                /\ whir'.prover.multi_order * (2 ^ k) = whir.prover.multi_order]_vars

C32_OrderInsensitive ==
    LET Reordered(indices, perm) == [i \in 1 .. Len(indices) |-> indices[perm[i]]]
        \* one list per multiset of indices: the nondecreasing one
        Ascending(indices) == \A i \in 1 .. (Len(indices) - 1) : indices[i] <= indices[i + 1]
        \* the query loop of consistancy_cross_check on the drawn indices;
        \* q[ndx + 1] is the query at index ndx
        CrossCheckRun(q, indices) ==
            LET RECURSIVE Loop(_, _)
                Loop(i, success) ==
                    IF i > Len(indices)
                    THEN IF is_overwhelming_majority(success) THEN "True" ELSE "False"
                    ELSE IF q[indices[i] + 1].singular THEN "ZeroDivisionError"
                    ELSE Loop(i + 1, Append(success, q[indices[i] + 1].check_passed))
            IN  Loop(1, <<>>)
        \* the vote loop of verify_proof on the drawn indices
        VoteRun(agrees, indices) ==
            LET RECURSIVE Loop(_, _)
                Loop(i, votes) ==
                    IF i > Len(indices)
                    THEN IF VoteAccepts(votes, pcs.query_count) THEN "True" ELSE "False"
                    ELSE Loop(i + 1, IF agrees[indices[i] + 1] THEN votes + 1 ELSE votes)
            IN  Loop(1, 0)
        \* every ordering of the indices ends as the ascending one does
        AllOrders(outcome, table, indices, cross_check) ==
            \A perm \in Permutations(1 .. Len(indices)) :
               outcome = IF cross_check THEN CrossCheckRun(table, Reordered(indices, perm))
                         ELSE VoteRun(table, Reordered(indices, perm))
        CrossCheckInsensitive(q, n, count) ==
            /\ vp.success = <<>>
                  => \A indices \in {l \in SeqsOfLen(0 .. (n - 1), count) : Ascending(l)} :
                        AllOrders(CrossCheckRun(q, indices), q, indices, TRUE)
            /\ \A i \in 1 .. Len(vp.success) :
                  \E ndx \in 0 .. (n - 1) :
                     ~ q[ndx + 1].singular /\ vp.success[i] = q[ndx + 1].check_passed
        VoteInsensitive(agrees, n, count) ==
            /\ pcs.queries_done = 0
                  => \A indices \in {l \in SeqsOfLen(0 .. (n - 1), count) : Ascending(l)} :
                        AllOrders(VoteRun(agrees, indices), agrees, indices, FALSE)
            /\ \E indices \in SeqsOfLen(0 .. (n - 1), pcs.queries_done) :
                  pcs.votes = Cardinality({i \in 1 .. pcs.queries_done : agrees[indices[i] + 1]})
    IN  /\ pc = "vp_query"
              => LET rounds == oracles[cur].rounds
                     n == Len(vp.previous_round_proof)
                 IN  CrossCheckInsensitive(
                         SubSeq([i \in 1 .. n |->
                                    CrossCheckQuery(rounds[vp.this_ndx].fri_round,
                                                    rounds[vp.prev_ndx].fri_round,
                                                    vp.previous_round_proof, vp.this_round_proof,
                                                    rounds[vp.this_ndx].fold_randomness,
                                                    rounds[vp.this_ndx].deep_poly, i - 1)], 1, n),
                         n, vp.query_count)
        /\ pc = "pcs_vote"
              => LET eval_points ==
                         evaluation_points(oracles["input_oracle"].rounds[1].fri_round)
                     n == Len(pcs.rs_orignal)
                 IN  VoteInsensitive(
                         SubSeq([i \in 1 .. n |->
                                    Reconstructed(pcs.claim_value, pcs.rs_quot[i],
                                                  eval_points[i], pcs.claim_point)
                                      = pcs.rs_orignal[i]], 1, n),
                         n, pcs.query_count)

\* a cross-check whose two drawn queries disagree: one passes, the other fails
C32_Witness ==
    /\ pc = "vp_query" /\ vp.query_count = 2 /\ Len(vp.success) = 2
    /\ vp.success[1] # vp.success[2]

\* C33: in open(), for every witness, mask draw, evaluation point and verifier
\* challenge c, the codeword of the WhirRound built over c*masked_poly + scheck_mask
\* equals c*(masked-witness oracle) + (sumcheck-mask oracle) at every domain index.
C33_VirtualOracle ==
    pc = "zk_open"
       => LET extended_eval_point == zk.evaluation_point \o <<0>>
              sumcheck_poly == MAdd(MScale(zk.verifier_challenge, zk.masked_poly),
                                    zk.scheck_mask)
              claimed_sum == FAdd(FMul(zk.verifier_challenge,
                                       MEval(zk.input_poly, zk.evaluation_point)),
                                  MEval(zk.scheck_mask, extended_eval_point))
              first_round == WhirRound(sumcheck_poly,
                                       eq_weight_polynomial(Len(extended_eval_point),
                                                            extended_eval_point),
                                       params.ntt_omega, claimed_sum)
          IN  \A i \in 1 .. Len(zk.commitment.func) :
                 first_round.code_value[i]
                   = FAdd(FMul(zk.verifier_challenge, zk.commitment.func[i]),
                          zk.commitment.scheck_mask[i])


\* largest split_degree the round trip of poly_ksplit is checked for
MaxSplit == 5

\* C34: split/recombine round trip.  For every polynomial p of a fold chain and
\* every split_degree t >= 1, poly_ksplit(p, t) returns t sub-polynomials, s_j
\* collecting the coefficients of p of index congruent to j mod t, and the sum
\* over j of X^j * s_j(X^t) is p again.
C34_SplitRecombine ==
    \A id \in OracleIds :
       \A r \in 1 .. Len(oracles[id].rounds) :
          \A t \in 1 .. MaxSplit :
             LET RoundTrip(poly, splits) ==
                     LET width == t * (PDeg(poly) \div t + 1)
                         \* coefficient i of the sum over j of X^j * s_j(X^t)
                         pp == PNorm([k \in 1 .. width |->
                                         SumFirst([j \in 1 .. t |->
                                                      IF (k - 1) >= (j - 1)
                                                         /\ ((k - 1) - (j - 1)) % t = 0
                                                      THEN Coef(splits[j], ((k - 1) - (j - 1)) \div t)
                                                      ELSE 0], t)])
                     IN  /\ Len(splits) = t
                         /\ \A j \in 1 .. t :
                               \A d \in 0 .. (PDeg(poly) + 1) :
                                  Coef(splits[j], d) = Coef(poly, d * t + (j - 1))
                         /\ pp = poly
                 Split(poly) == RoundTrip(poly, poly_ksplit(poly, t))
             IN  Split(oracles[id].rounds[r].fri_round.poly)

\* a chain whose first polynomial has degree at least 5 was folded through
\* poly_ksplit, and its degree is no multiple of the folding factor
C34_Witness ==
    /\ stage = "friopp" /\ pc = "built"
    /\ Len(oracles[cur].rounds) >= 2
    /\ PDeg(oracles[cur].rounds[1].fri_round.poly) >= 5
    /\ PDeg(oracles[cur].rounds[1].fri_round.poly) % params.folding_factor # 0

C36_MaskedMultilinear ==
    (stage = "zk" /\ pc # "zk_init" /\ raised # "NameError")
    => /\ zk.masked_poly # <<>>
       /\ NumVars(zk.masked_poly) = NumVars(zk.input_poly) + 1
       /\ \A k \in 1 .. Len(zk.masked_poly) :
             zk.masked_poly[k] # 0
                => \A i \in 1 .. NumVars(zk.masked_poly) : ExpAt(k, i) <= 1


\* C37: WHIR loop termination.  Every iteration of the loop of validate_pcs_claim
\* ends with a next round whose RS dimension is the current one divided by
\* fold_factor and is at most half the order of its domain, for every fold_factor
\* WhirVerifier takes; no fold_check ends in the ValueError of the constructor of
\* the next round.
C37_LoopTerminates ==
    [][((stage = "whir" /\ pc = "whir_fold")
          => /\ raised' # "ValueError"
             /\ pc' = "whir_loop"
                   => /\ whir'.prover.dimension * params.fold_factor = whir.prover.dimension
                      /\ 2 * whir'.prover.dimension <= whir'.prover.multi_order)]_vars


\* C38: degree-bound tracking in verify_proximity.  On an honest chain with
\* claimed max_degree > deg f, the bound tracked after each cross-checked round
\* (floor(bound / folding_factor) + 1, minus the degree of the DEEP denominator)
\* is strictly above the degree of that round's polynomial, and the loop is left
\* only at the last round of the chain.
C38_BoundAboveDegree ==
    (stage = "friopp" /\ pc \in {"vp_cross", "vp_query", "vp_final"}
       /\ vp.max_degree > PDeg(oracles[cur].rounds[1].fri_round.poly))
    => /\ vp.round_max_degree > PDeg(oracles[cur].rounds[vp.prev_ndx].fri_round.poly)
       /\ pc = "vp_final" => vp.prev_ndx = Len(oracles[cur].rounds)

====
